---- MODULE Spec2Model ----
(***************************************************************************)
(* A model of metaextract: download, search, text mining, extraction,      *)
(* result processing and the online pipeline.                              *)
(*                                                                         *)
(*   DownloadSpec : one AsyncDownloader and one download_files call        *)
(*                  (src/metaextract/download/downloader.py)               *)
(*   DownloadFairSpec : DownloadSpec with an event loop that keeps running *)
(*                  the tasks and fetches that terminate                   *)
(*   SearchSpec   : one DuckDuckGoSearch.search_files call                 *)
(*                  (src/metaextract/search/duckduckgo.py)                 *)
(*   MinerSpec    : one extract_emails call (search/parser.py)             *)
(*   ProcessorSpec : process_file and process_directory calls on one       *)
(*                  ResultProcessor (processing/processor.py)              *)
(*   ExtractSpec  : one process_file call on any file (extractors/)        *)
(*   PipelineSpec : one search_and_extract run (cli.py)                    *)
(*   NameSpec     : the file name and the local path a url gives           *)
(*                  (download/downloader.py)                               *)
(*   ChunkSpec    : the four extract functions on two chunks of a text     *)
(*                  and on their concatenation (search/parser.py)          *)
(*   ParseSpec    : _parse_results and the truncation to limit on one      *)
(*                  body (search/duckduckgo.py)                            *)
(*                                                                         *)
(* An optional value (Python's None or a value) is a sequence of length    *)
(* at most one: <<>> is None, <<v>> is v.                                  *)
(***************************************************************************)
EXTENDS Integers, Sequences, FiniteSets, TLC

VARIABLES
    \* ---- AsyncDownloader ------------------------------------------------
    max_concurrent,  \* self.max_concurrent, fixed by the constructor
    fs0,             \* names present in output_dir when download_files is called
    fs,              \* output_dir now: name -> 0 (was there before) or the task that wrote it
    sem,             \* self._semaphore's value
    dmain,           \* download_files: "idle", "gather", "returned"
    durls,           \* the urls argument
    dlimit,          \* the limit argument (optional)
    dtodo,           \* urls_to_download
    dpc,             \* per task: "start", "fetching", "reading", "done"
    dpath,           \* per task: local_path chosen by _get_unique_path (optional)
    dresp,           \* per task: what the fetch produced (optional)
    dret,            \* per task: the DownloadResult returned (optional)
    nfetch,          \* per task: session.get calls issued
    dresults,        \* list returned by download_files
    out_of_order,    \* history: some task returned while an earlier one was still running
    \* ---- DuckDuckGoSearch.search_files ----------------------------------
    spc,             \* "idle", "loop", "post", "await", "courtesy", "returned", "raised"
    max_retries,     \* the max_retries argument
    sdelay,          \* self.delay (seconds)
    slimit,          \* the limit argument
    attempt,         \* the loop variable
    slog,            \* events of the call in order: posts, responses, sleeps
    sresults,        \* the local variable results
    sparsed,         \* number of _parse_results calls
    squery,          \* the local variable query
    sret,            \* the returned list (optional)
    sexc             \* the exception that left search_files (optional)

VARIABLES
    mtext,           \* the text argument of a Text Miner call (characters)
    mret             \* the list the call returned (optional)

VARIABLES
    documents,       \* processor.results.documents
    failed,          \* processor.results.failed
    pcalls,          \* the files process_file was called with, in order
    pop              \* the last operation on the processor and their number

VARIABLES
    file_types,      \* the file_types argument of search_and_extract
    download_limit,  \* its download_limit argument
    ft_idx,          \* the position of the for loop in file_types, from 1
    rpc,             \* where search_and_extract is
    session,         \* search_engine._session: "none", "open" or "closed"
    closes,          \* number of search_engine.close() calls made
    batch,           \* the tasks of the download_files call: url and result
    download_results, \* the list download_files returned
    dk,              \* the position of the loop over download_results, from 1
    rlog,            \* searches, downloads and extractions in order
    produced,        \* every DownloadResult returned to the run, in order
    rexc             \* the exception leaving search_and_extract (optional)

VARIABLES
    \* ---- one _download_file call, from the url to the path written ------
    nurl,            \* the url
    nfiles,          \* the names in the output directory
    npc,             \* "idle", "start", "named", "fetching", "done"
    nsan,            \* the argument of _sanitize_filename (optional)
    nname,           \* what _extract_filename returned (optional)
    npath,           \* local_path after _get_unique_path (optional)
    \* ---- one _parse_results call ----------------------------------------
    html,            \* the body
    hfile_type,      \* the file_type argument
    hdomain,         \* self.domain
    hlimit,          \* the max_results of the search_files call
    hret,            \* the list parsed and the list returned (optional)
    \* ---- the Text Miner on two chunks and on their concatenation --------
    chunks,          \* the two chunks
    cfound           \* what each function found (optional)

mvars == <<mtext, mret>>
nvars == <<nurl, nfiles, npc, nsan, nname, npath>>
hvars == <<html, hfile_type, hdomain, hlimit, hret>>
cvars == <<chunks, cfound>>
xvars == <<nvars, hvars, cvars>>
rvars == <<documents, failed, pcalls, pop>>
pvars == <<file_types, download_limit, ft_idx, rpc, session, closes, batch,
           download_results, dk, rlog, produced, rexc>>
ovars == <<mvars, rvars, pvars, xvars>>

dvars == <<max_concurrent, fs0, fs, sem, dmain, durls, dlimit, dtodo, dpc, dpath,
           dresp, dret, nfetch, dresults, out_of_order>>
svars == <<spc, max_retries, sdelay, slimit, attempt, slog, sresults, sparsed,
           squery, sret, sexc>>
vars == <<dvars, svars, ovars>>

None == <<>>
Some(v) == <<v>>
Min(a, b) == IF a < b THEN a ELSE b

(***************************************************************************)
(* Bounds of the model.                                                    *)
(***************************************************************************)
MaxUrls == 2
MaxRetries == 3

(***************************************************************************)
(* URLs.  A URL is its host and the last segment of its path, the segment  *)
(* split into stem and suffix as pathlib does; an empty segment has both   *)
(* empty.                                                                  *)
(***************************************************************************)
Url(h, st, su) == [host |-> h, stem |-> st, suffix |-> su]
URLS == { Url("a.example", "report", ".pdf"),
          Url("b.example", "report", ".pdf"),
          Url("a.example", "", "") }

\* Names that may be in the output directory before the call.
OutputDirs == { {}, {"report.pdf"}, {"report.pdf", "report_1.pdf"} }

\* Configured max_concurrent values, and limit arguments (None or a count).
Concurrencies == {1, 2}
Limits == {<<>>, <<0>>, <<1>>, <<2>>}

RECURSIVE SeqsUpTo(_, _)
SeqsUpTo(S, n) ==
    IF n = 0 THEN {<<>>}
    ELSE LET shorter == SeqsUpTo(S, n - 1)
         IN shorter \cup {Append(s, x) : s \in {t \in shorter : Len(t) = n - 1}, x \in S}

\* The urls arguments tried: every list of at most MaxUrls distinct URLs.
UrlLists ==
    {s \in SeqsUpTo(URLS, MaxUrls) : \A i, j \in 1..Len(s) : i # j => s[i] # s[j]}

(***************************************************************************)
(* AsyncDownloader: pure helpers                                           *)
(***************************************************************************)

\* _extract_filename: the last path segment, or the placeholder when empty.
extract_filename(url) ==
    IF url.stem \o url.suffix = ""
    THEN [stem |-> "downloaded_file", suffix |-> ""]
    ELSE [stem |-> url.stem, suffix |-> url.suffix]

\* The loop of _get_unique_path: stem_counter+suffix for the first counter
\* whose name does not exist.
RECURSIVE unique_from(_, _, _, _)
unique_from_first(files, stem, suffix, counter) ==
    stem \o "_" \o ToString(counter) \o suffix
unique_from(files, stem, suffix, counter) ==
    LET cand == stem \o "_" \o ToString(counter) \o suffix
    IN IF cand \in files THEN unique_from(files, stem, suffix, counter + 1)
       ELSE cand

get_unique_path(files, name) ==
    IF (name.stem \o name.suffix) \notin files
    THEN name.stem \o name.suffix
    ELSE unique_from(files, name.stem, name.suffix, 1)

(***************************************************************************)
(* DownloadResult values built by _download_file                           *)
(***************************************************************************)
DownloadResult(url, local_path, success, error) ==
    [url |-> url, local_path |-> local_path, success |-> success, error |-> error]

SkipResult(url, path) == DownloadResult(url, Some(path), TRUE, None)
\* Faulty variant of TooSmallResult: reported as a success.
TooSmallResultAsSuccess(url) == DownloadResult(url, None, TRUE, Some("File too small or empty"))
TooSmallResult(url) == DownloadResult(url, None, FALSE, Some("File too small or empty"))
SuccessResult(url, path) == DownloadResult(url, Some(path), TRUE, None)
HttpErrorResult(url, status) ==
    DownloadResult(url, None, FALSE, Some("HTTP " \o ToString(status)))
TimeoutResult(url) == DownloadResult(url, None, FALSE, Some("Timeout"))
NetworkErrorResult(url, msg) ==
    DownloadResult(url, None, FALSE, Some("Network error: " \o msg))
UnexpectedResult(url, msg) == DownloadResult(url, None, FALSE, Some(msg))

\* len(content) < 100
MinContentLen == 100
\* Faulty variant of TooSmall: the threshold one byte lower.
TooSmallBelow99(n) == n < MinContentLen - 1
TooSmall(n) == n < MinContentLen

(***************************************************************************)
(* What the network and the disk may do to one fetch.                      *)
(***************************************************************************)
Statuses == {200, 404}
BodyLens == {0, MinContentLen - 1, MinContentLen}
ExcMessages == {""}

GetOutcomes ==
    [kind : {"status"}, status : Statuses, msg : {""}]
    \cup [kind : {"timeout", "client_error"}, status : {0}, msg : {"reset"}]
    \cup [kind : {"exception"}, status : {0}, msg : ExcMessages]

ReadOutcomes ==
    [kind : {"body"}, len : BodyLens, write : {"ok"}]
    \cup [kind : {"body"}, len : {MinContentLen + 1}, write : {"oserror"}]
    \cup [kind : {"client_error"}, len : {0}, write : {"none"}]

Tasks == 1..Len(dtodo)

(***************************************************************************)
(* download_files                                                          *)
(***************************************************************************)

\* urls[:limit] if limit else urls, for limit None or >= 0
urls_to_download(urls, limit) ==
    IF limit # None /\ limit[1] # 0
    THEN SubSeq(urls, 1, Min(limit[1], Len(urls)))
    ELSE urls

\* download_files up to the await of gather: the tasks are created in input order.
DownloadFiles(urls, limit) ==
    /\ dmain = "idle"
    /\ dmain' = "gather"
    /\ durls' = urls
    /\ dlimit' = limit
    /\ dtodo' = urls_to_download(urls, limit)
    /\ dpc' = [i \in 1..Len(dtodo') |-> "start"]
    /\ dpath' = [i \in 1..Len(dtodo') |-> None]
    /\ dresp' = [i \in 1..Len(dtodo') |-> None]
    /\ dret' = [i \in 1..Len(dtodo') |-> None]
    /\ nfetch' = [i \in 1..Len(dtodo') |-> 0]
    /\ UNCHANGED <<max_concurrent, fs0, fs, sem, dresults, out_of_order, svars, ovars>>

\* Faulty variant of task_url: every task bound to the last url (late binding).
task_url_last(i) == dtodo[Len(dtodo)]

\* The url bound to task idx by the comprehension over enumerate(urls_to_download).
task_url(i) == dtodo[i]

\* gather starts the tasks in input order and the semaphore wakes its waiters
\* first come, first served: a task enters after every task before it.
fifo_turn(i) == \A j \in 1..(i - 1) : dpc[j] # "start"

\* Faulty variant of Acquirable: no gate at all.
AcquirableAlways == TRUE

\* async with self._semaphore: entry is possible while a permit is left.
Acquirable == sem > 0

\* Faulty variant of Finish: the permit is not released on a failure.
FinishLeak(i, r, held) ==
    /\ dret' = [dret EXCEPT ![i] = Some(r)]
    /\ dpc' = [dpc EXCEPT ![i] = "done"]
    /\ sem' = IF held /\ r.success THEN sem + 1 ELSE sem
    /\ out_of_order' = (out_of_order \/ \E j \in 1..(i - 1) : dpc[j] # "done")

\* A task leaves _download_file with result r, holding a permit iff held.
Finish(i, r, held) ==
    /\ dret' = [dret EXCEPT ![i] = Some(r)]
    /\ dpc' = [dpc EXCEPT ![i] = "done"]
    /\ sem' = IF held THEN sem + 1 ELSE sem
    /\ out_of_order' = (out_of_order \/ \E j \in 1..(i - 1) : dpc[j] # "done")

\* _download_file from the semaphore to the first suspension (session.get).
Enter(i) ==
    /\ dmain = "gather"
    /\ i \in Tasks
    /\ dpc[i] = "start"
    /\ fifo_turn(i)
    /\ Acquirable
    /\ LET url == task_url(i)
           local_path == get_unique_path(DOMAIN fs, extract_filename(url))
       IN IF local_path \in DOMAIN fs
          THEN /\ Finish(i, SkipResult(url, local_path), FALSE)
               /\ UNCHANGED <<dpath, nfetch>>
          ELSE /\ dpath' = [dpath EXCEPT ![i] = Some(local_path)]
               /\ nfetch' = [nfetch EXCEPT ![i] = @ + 1]
               /\ dpc' = [dpc EXCEPT ![i] = "fetching"]
               /\ sem' = sem - 1
               /\ UNCHANGED <<dret, out_of_order>>
    /\ UNCHANGED <<max_concurrent, fs0, fs, dmain, durls, dlimit, dtodo, dresp,
                   dresults, svars, ovars>>

\* session.get answers (or fails) for task i.
Respond(i) ==
    /\ dmain = "gather"
    /\ i \in Tasks
    /\ dpc[i] = "fetching"
    /\ \E o \in GetOutcomes :
        /\ dresp' = [dresp EXCEPT ![i] = Some([kind |-> o.kind, status |-> o.status, len |-> 0])]
        /\ CASE o.kind = "status" /\ o.status = 200 ->
                    /\ dpc' = [dpc EXCEPT ![i] = "reading"]
                    /\ UNCHANGED <<dret, sem, out_of_order>>
             [] o.kind = "status" /\ o.status # 200 ->
                    Finish(i, HttpErrorResult(task_url(i), o.status), TRUE)
             [] o.kind = "timeout" -> Finish(i, TimeoutResult(task_url(i)), TRUE)
             [] o.kind = "client_error" ->
                    Finish(i, NetworkErrorResult(task_url(i), o.msg), TRUE)
             [] o.kind = "exception" ->
                    Finish(i, UnexpectedResult(task_url(i), o.msg), TRUE)
    /\ UNCHANGED <<max_concurrent, fs0, fs, dmain, durls, dlimit, dtodo, dpath,
                   nfetch, dresults, svars, ovars>>

\* response.read() completes (or fails); the size check, write_bytes and the
\* return follow without suspension.
ReadBody(i) ==
    /\ dmain = "gather"
    /\ i \in Tasks
    /\ dpc[i] = "reading"
    /\ \E o \in ReadOutcomes :
        /\ dresp' = [dresp EXCEPT ![i] = Some([kind |-> o.kind, status |-> 200, len |-> o.len])]
        /\ CASE o.kind = "body" /\ TooSmall(o.len) ->
                    /\ Finish(i, TooSmallResult(task_url(i)), TRUE)
                    /\ fs' = fs
             [] o.kind = "body" /\ ~TooSmall(o.len) /\ o.write = "ok" ->
                    /\ Finish(i, SuccessResult(task_url(i), dpath[i][1]), TRUE)
                    /\ fs' = [n \in DOMAIN fs \cup {dpath[i][1]} |->
                                IF n = dpath[i][1] THEN i ELSE fs[n]]
             [] o.kind = "body" /\ ~TooSmall(o.len) /\ o.write = "oserror" ->
                    /\ Finish(i, UnexpectedResult(task_url(i), "disk full"), TRUE)
                    /\ \E created \in BOOLEAN :
                         fs' = IF created
                               THEN [n \in DOMAIN fs \cup {dpath[i][1]} |->
                                       IF n = dpath[i][1] THEN i ELSE fs[n]]
                               ELSE fs
             [] o.kind = "client_error" ->
                    /\ Finish(i, NetworkErrorResult(task_url(i), "reset"), TRUE)
                    /\ fs' = fs
    /\ UNCHANGED <<max_concurrent, fs0, dmain, durls, dlimit, dtodo, dpath,
                   nfetch, dresults, svars, ovars>>

\* asyncio.gather(*tasks): the results in the order of the awaitables.
gather == [k \in 1..Len(dtodo) |-> dret[k][1]]

\* download_files returns once every task has returned.
Return ==
    /\ dmain = "gather"
    /\ \A i \in Tasks : dpc[i] = "done"
    /\ dresults' = gather
    /\ dmain' = "returned"
    /\ UNCHANGED <<max_concurrent, fs0, fs, sem, durls, dlimit, dtodo, dpc, dpath,
                   dresp, dret, nfetch, out_of_order, svars, ovars>>

SearchIdle ==
    /\ spc = "idle"
    /\ max_retries = 0
    /\ sdelay = 0
    /\ slimit = 0
    /\ attempt = 0
    /\ slog = <<>>
    /\ sresults = <<>>
    /\ sparsed = 0
    /\ squery = ""
    /\ sret = None
    /\ sexc = None

MinerIdle ==
    /\ mtext = <<>>
    /\ mret = None


ProcessorIdle ==
    /\ documents = <<>>
    /\ failed = <<>>
    /\ pcalls = <<>>
    /\ pop = [op |-> "none", arg |-> <<>>, n |-> 0]

PipelineIdle ==
    /\ file_types = <<>>
    /\ download_limit = 0
    /\ ft_idx = 1
    /\ rpc = "idle"
    /\ session = "none"
    /\ closes = 0
    /\ batch = <<>>
    /\ download_results = <<>>
    /\ dk = 1
    /\ rlog = <<>>
    /\ produced = <<>>
    /\ rexc = None

NameIdle ==
    /\ nurl = <<>>
    /\ nfiles = {}
    /\ npc = "idle"
    /\ nsan = None
    /\ nname = None
    /\ npath = None

ParseIdle ==
    /\ html = <<>>
    /\ hfile_type = <<>>
    /\ hdomain = <<>>
    /\ hlimit = 0
    /\ hret = None

ChunkIdle ==
    /\ chunks = <<>>
    /\ cfound = None

ExtraIdle == NameIdle /\ ParseIdle /\ ChunkIdle

OthersIdle == MinerIdle /\ ProcessorIdle /\ PipelineIdle /\ ExtraIdle

\* AsyncDownloader(output_dir, max_concurrent) over some output directory.
DownloadInit ==
    /\ max_concurrent \in Concurrencies
    /\ fs0 \in OutputDirs
    /\ fs = [n \in fs0 |-> 0]
    /\ sem = max_concurrent
    /\ dmain = "idle"
    /\ durls = <<>>
    /\ dlimit = None
    /\ dtodo = <<>>
    /\ dpc = <<>>
    /\ dpath = <<>>
    /\ dresp = <<>>
    /\ dret = <<>>
    /\ nfetch = <<>>
    /\ dresults = <<>>
    /\ out_of_order = FALSE
    /\ SearchIdle
    /\ OthersIdle

DownloadNext ==
    \/ \E urls \in UrlLists, limit \in Limits : DownloadFiles(urls, limit)
    \/ \E i \in 1..MaxUrls : Enter(i)
    \/ \E i \in 1..MaxUrls : Respond(i)
    \/ \E i \in 1..MaxUrls : ReadBody(i)
    \/ Return

DownloadSpec == DownloadInit /\ [][DownloadNext]_vars

\* The event loop runs every task that can run, and every fetch terminates.
DownloadFairSpec == DownloadSpec /\ WF_vars(DownloadNext)

(***************************************************************************)
(* DuckDuckGoSearch.search_files                                           *)
(*                                                                         *)
(* Durations are in tenths of a second, so that the jitter drawn by        *)
(* random.uniform(0.5, 1.5) is one of the integers of Jitters.             *)
(* A response of status 200 stands for a response whose body was read; a   *)
(* body is given by the list _parse_results makes of it.                   *)
(***************************************************************************)
Domain == "example.com"
FileTypes == {"pdf", "docx"}
Delays == {2, 3}
Jitters == {5, 10, 14}
SearchLimits == {0, 1, 100}
Bodies == { <<>>, <<"https://example.com/a.pdf", "https://example.com/b.pdf">> }

PostOutcomes ==
    [kind : {"status"}, status : {202, 429, 500}, body : {<<>>}]
    \cup [kind : {"status"}, status : {200}, body : Bodies]
    \cup [kind : {"client_error", "timeout"}, status : {0}, body : {<<>>}]

Event(ev, a, val) == [ev |-> ev, attempt |-> a, val |-> val]

\* f"filetype:{file_type} site:{self.domain}"
query_of(file_type) == "filetype:" \o file_type \o " site:" \o Domain

SearchError(msg, query) == [type |-> "SearchError", msg |-> msg, query |-> Some(query)]
TimeoutError == [type |-> "TimeoutError", msg |-> "", query |-> None]

\* Faulty variant of should_backoff: a sleep before the first attempt too.
should_backoff_always(a) == a >= 0
\* if attempt > 0
should_backoff(a) == a > 0
\* self.delay * (attempt + 1) * jitter
wait_time(delay, a, jitter) == delay * (a + 1) * jitter
\* self.delay + random.uniform(0.5, 1.5)
courtesy_time(delay, jitter) == delay * 10 + jitter
\* Faulty variant of retry_left: gives up one attempt early.
retry_left_short(a) == a < max_retries - 2
\* if attempt < max_retries - 1
retry_left(a) == a < max_retries - 1
\* results[:limit], for limit >= 0
truncate(results, limit) == SubSeq(results, 1, Min(limit, Len(results)))

\* search_files up to the head of the retry loop.
SearchFiles(file_type, limit, retries) ==
    /\ spc = "idle"
    /\ spc' = "loop"
    /\ squery' = query_of(file_type)
    /\ slimit' = limit
    /\ max_retries' = retries
    /\ attempt' = 0
    /\ sresults' = <<>>
    /\ UNCHANGED <<sdelay, slog, sparsed, sret, sexc, dvars, ovars>>

\* Head of one iteration: the jitter is drawn and, on a retry, the backoff slept.
BeginAttempt ==
    /\ spc = "loop"
    /\ attempt < max_retries
    /\ \E jitter \in Jitters :
         slog' = IF should_backoff(attempt)
                 THEN Append(slog, Event("backoff", attempt, wait_time(sdelay, attempt, jitter)))
                 ELSE slog
    /\ spc' = "post"
    /\ UNCHANGED <<max_retries, sdelay, slimit, attempt, sresults, sparsed, squery,
                   sret, sexc, dvars, ovars>>

\* session.post is issued.
Post ==
    /\ spc = "post"
    /\ slog' = Append(slog, Event("post", attempt, 0))
    /\ spc' = "await"
    /\ UNCHANGED <<max_retries, sdelay, slimit, attempt, sresults, sparsed, squery,
                   sret, sexc, dvars, ovars>>

Raise(exc) ==
    /\ sexc' = Some(exc)
    /\ spc' = "raised"
    /\ UNCHANGED <<attempt, sresults, sparsed>>

Continue ==
    /\ attempt' = attempt + 1
    /\ spc' = "loop"
    /\ UNCHANGED <<sexc, sresults, sparsed>>

\* The request ends: a status, a network-level aiohttp.ClientError, or the
\* total timeout of 30 s (asyncio.TimeoutError, which is no ClientError).
SearchRespond ==
    /\ spc = "await"
    /\ \E o \in PostOutcomes :
        /\ slog' = Append(slog, Event(IF o.kind = "status" THEN "resp" ELSE o.kind,
                                      attempt, o.status))
        /\ CASE o.kind = "status" /\ o.status \in {202, 429} ->
                    IF retry_left(attempt) THEN Continue
                    ELSE Raise(SearchError("Rate limited (status " \o ToString(o.status) \o ")",
                                           squery))
             [] o.kind = "status" /\ o.status \notin {200, 202, 429} ->
                    Raise(SearchError("Search failed with status " \o ToString(o.status),
                                      squery))
             [] o.kind = "status" /\ o.status = 200 ->
                    /\ sresults' = o.body
                    /\ sparsed' = sparsed + 1
                    /\ spc' = "courtesy"
                    /\ UNCHANGED <<attempt, sexc>>
             [] o.kind = "client_error" ->
                    IF retry_left(attempt) THEN Continue
                    ELSE Raise(SearchError("Network error: reset", squery))
             [] o.kind = "timeout" -> Raise(TimeoutError)
    /\ UNCHANGED <<max_retries, sdelay, slimit, squery, sret, dvars, ovars>>

\* The for loop runs out of attempts without a break or a raise.
LoopEnd ==
    /\ spc = "loop"
    /\ attempt >= max_retries
    /\ spc' = "courtesy"
    /\ UNCHANGED <<max_retries, sdelay, slimit, attempt, slog, sresults, sparsed,
                   squery, sret, sexc, dvars, ovars>>

\* The rate-limiting sleep between searches.
CourtesySleep ==
    /\ spc = "courtesy"
    /\ \E jitter \in Jitters :
         slog' = Append(slog, Event("courtesy", attempt, courtesy_time(sdelay, jitter)))
    /\ spc' = "return"
    /\ UNCHANGED <<max_retries, sdelay, slimit, attempt, sresults, sparsed, squery,
                   sret, sexc, dvars, ovars>>

SearchReturn ==
    /\ spc = "return"
    /\ sret' = Some(truncate(sresults, slimit))
    /\ spc' = "returned"
    /\ UNCHANGED <<max_retries, sdelay, slimit, attempt, slog, sresults, sparsed,
                   squery, sexc, dvars, ovars>>

DownloadIdle ==
    /\ max_concurrent = 1
    /\ fs0 = {}
    /\ fs = <<>>
    /\ sem = 1
    /\ dmain = "idle"
    /\ durls = <<>>
    /\ dlimit = None
    /\ dtodo = <<>>
    /\ dpc = <<>>
    /\ dpath = <<>>
    /\ dresp = <<>>
    /\ dret = <<>>
    /\ nfetch = <<>>
    /\ dresults = <<>>
    /\ out_of_order = FALSE

\* DuckDuckGoSearch(domain, delay)
SearchInit ==
    /\ spc = "idle"
    /\ sdelay \in Delays
    /\ max_retries = 0
    /\ slimit = 0
    /\ attempt = 0
    /\ slog = <<>>
    /\ sresults = <<>>
    /\ sparsed = 0
    /\ squery = ""
    /\ sret = None
    /\ sexc = None
    /\ DownloadIdle
    /\ OthersIdle

SearchNext ==
    \/ \E ft \in FileTypes, limit \in SearchLimits, retries \in 0..MaxRetries :
           SearchFiles(ft, limit, retries)
    \/ BeginAttempt
    \/ Post
    \/ SearchRespond
    \/ LoopEnd
    \/ CourtesySleep
    \/ SearchReturn

SearchSpec == SearchInit /\ [][SearchNext]_vars

(***************************************************************************)
(* Text Miner: search/parser.py                                            *)
(*                                                                         *)
(* A Python str is a sequence of one-character strings.                    *)
(***************************************************************************)
\* Printable ASCII in code-point order: Ascii[k] has code point k + 31
\* ("grave" stands for the grave accent, code point 96).
Ascii == <<
    " ", "!", "\"", "#", "$", "%", "&", "'", "(", ")", "*", "+", ",", "-", ".", "/",
    "0", "1", "2", "3", "4", "5", "6", "7", "8", "9", ":", ";", "<", "=", ">", "?",
    "@", "A", "B", "C", "D", "E", "F", "G", "H", "I", "J", "K", "L", "M", "N", "O",
    "P", "Q", "R", "S", "T", "U", "V", "W", "X", "Y", "Z", "[", "\\", "]", "^", "_",
    "grave", "a", "b", "c", "d", "e", "f", "g", "h", "i", "j", "k", "l", "m", "n", "o",
    "p", "q", "r", "s", "t", "u", "v", "w", "x", "y", "z", "{", "|", "}", "~" >>
CodePoints == [c \in {Ascii[k] : k \in 1..Len(Ascii)} |->
                  31 + (CHOOSE k \in 1..Len(Ascii) : Ascii[k] = c)]
Ord(c) == CodePoints[c]
Chr(n) == Ascii[n - 31]

IsUpper(c) == Ord(c) \in 65..90
IsLower(c) == Ord(c) \in 97..122
IsDigit(c) == Ord(c) \in 48..57
IsAlnum(c) == IsUpper(c) \/ IsLower(c) \/ IsDigit(c)
\* \w and \b of the re module on ASCII text.
WordChar(c) == IsAlnum(c) \/ c = "_"
WordAt(t, p) == p \in 1..Len(t) /\ WordChar(t[p])
Boundary(t, p) == WordAt(t, p - 1) # WordAt(t, p)

\* str.lower()
lower_char(c) == IF IsUpper(c) THEN Chr(Ord(c) + 32) ELSE c
lower(t) == [k \in 1..Len(t) |-> lower_char(t[k])]
\* str.endswith(suffix)
endswith(t, suffix) ==
    /\ Len(suffix) <= Len(t)
    /\ SubSeq(t, Len(t) - Len(suffix) + 1, Len(t)) = suffix

\* The order of str comparison: code points, left to right.
LexLess(a, b) ==
    \E k \in 1..(Min(Len(a), Len(b)) + 1) :
        /\ \A m \in 1..(k - 1) : a[m] = b[m]
        /\ k <= Len(b)
        /\ k <= Len(a) => Ord(a[k]) < Ord(b[k])
\* The concatenation of a sequence of sequences.
RECURSIVE Concat(_)
Concat(ss) == IF ss = <<>> THEN <<>> ELSE Head(ss) \o Concat(Tail(ss))
\* sorted(S) for a set of str
RECURSIVE sorted(_)
sorted(S) ==
    IF S = {} THEN <<>>
    ELSE LET least == CHOOSE x \in S : \A y \in S \ {x} : LexLess(x, y)
         IN <<least>> \o sorted(S \ {least})

\* The character classes of EMAIL_PATTERN:
\* \b[A-Za-z0-9._%+-]+@[A-Za-z0-9.-]+\.[A-Z|a-z]{2,}\b
LocalChar(c) == IsAlnum(c) \/ c \in {".", "_", "%", "+", "-"}
DomainChar(c) == IsAlnum(c) \/ c \in {".", "-"}
TldChar(c) == IsUpper(c) \/ IsLower(c) \/ c = "|"

\* A character class of the patterns, by name.
PathChar(c) == c \notin {" ", "<", ">", "\"", "'"}
\* [^\s<>"')\]}>] of URL_PATTERN
UrlChar(c) == c \notin {" ", "<", ">", "\"", "'", ")", "]", "}"}
InClass(class, c) ==
    CASE class = "local" -> LocalChar(c)
      [] class = "domain" -> DomainChar(c)
      [] class = "label" -> TldChar(c)
      [] class = "path" -> PathChar(c)
\* The end (exclusive) of the longest run of characters of a class from p on.
run_end(class, t, p) ==
    LET stops == {i \in p..Len(t) : ~InClass(class, t[i])}
    IN IF stops = {} THEN Len(t) + 1
       ELSE CHOOSE i \in stops : \A i2 \in stops : i <= i2
Max(S) == CHOOSE x \in S : \A y \in S : y <= x
\* The ends (exclusive) of a final label that starts after the dot t[j]: two
\* or more label characters followed by a word boundary.
label_ends(t, j) ==
    {e \in (j + 3)..run_end("label", t, j + 1) : Boundary(t, e)}
\* The match of EMAIL_PATTERN that the backtracking engine reports at p, as
\* its end (exclusive), 0 if there is none. The local part runs up to the
\* first character outside its class, which must be the @; every quantifier
\* is greedy, so the domain ends at the latest dot that a final label can
\* follow, and the label is the longest one that ends at a word boundary.
email_match_end(t, p) ==
    IF ~Boundary(t, p) THEN 0
    ELSE LET at == run_end("local", t, p)
         IN IF at = p \/ at > Len(t) \/ t[at] # "@" THEN 0
            ELSE LET dots == {j \in (at + 2)..(run_end("domain", t, at + 1) - 1) :
                                t[j] = "." /\ label_ends(t, j) # {}}
                 IN IF dots = {} THEN 0 ELSE Max(label_ends(t, Max(dots)))
\* EMAIL_PATTERN.finditer(text): leftmost, non-overlapping matches from p on.
RECURSIVE email_finditer(_, _)
email_finditer(t, p) ==
    IF p > Len(t) THEN <<>>
    ELSE LET e == email_match_end(t, p)
         IN IF e = 0 THEN email_finditer(t, p + 1)
            ELSE <<SubSeq(t, p, e - 1)>> \o email_finditer(t, e)

EMAIL_BLACKLIST ==
    { <<"e", "x", "a", "m", "p", "l", "e", ".", "c", "o", "m">>,
      <<"e", "x", "a", "m", "p", "l", "e", ".", "o", "r", "g">>,
      <<"t", "e", "s", "t", ".", "c", "o", "m">>,
      <<"l", "o", "c", "a", "l", "h", "o", "s", "t">>,
      <<"d", "o", "m", "a", "i", "n", ".", "c", "o", "m">> }
FALSE_TLDS ==
    { <<".", "p", "d", "f">>,
      <<".", "d", "o", "c">>,
      <<".", "d", "o", "c", "x">>,
      <<".", "x", "l", "s">>,
      <<".", "x", "l", "s", "x">>,
      <<".", "p", "p", "t">>,
      <<".", "p", "p", "t", "x">>,
      <<".", "z", "i", "p">>,
      <<".", "r", "a", "r">>,
      <<".", "e", "x", "e">>,
      <<".", "d", "l", "l">>,
      <<".", "j", "p", "g">>,
      <<".", "j", "p", "e", "g">>,
      <<".", "p", "n", "g">>,
      <<".", "g", "i", "f">> }

\* email.split("@")[1] if "@" in email else ""
email_domain(email) ==
    LET ats == {k \in 1..Len(email) : email[k] = "@"}
    IN IF ats = {} THEN <<>>
       ELSE LET first == CHOOSE k \in ats : \A k2 \in ats : k <= k2
                rest == SubSeq(email, first + 1, Len(email))
                more == {k \in 1..Len(rest) : rest[k] = "@"}
            IN IF more = {} THEN rest
               ELSE SubSeq(rest, 1, (CHOOSE k \in more : \A k2 \in more : k <= k2) - 1)

email_kept(email) ==
    /\ email_domain(email) \notin EMAIL_BLACKLIST
    /\ \A ext \in FALSE_TLDS : ~endswith(email, ext)

extract_emails(text) ==
    IF text = <<>> THEN <<>>
    ELSE LET found == email_finditer(text, 1)
             emails == {lower(found[k]) : k \in 1..Len(found)}
         IN sorted({email \in emails : email_kept(email)})

\* [^\s<>"'] of the three path patterns (of the white space, the texts of
\* the model hold the blank only).
\* [A-Za-z]:\\[^\s<>"']+ at p: the end of the match, 0 if none.
windows_match_end(t, p) ==
    IF /\ p + 3 <= Len(t)
       /\ IsUpper(t[p]) \/ IsLower(t[p])
       /\ t[p + 1] = ":"
       /\ t[p + 2] = "\\"
       /\ PathChar(t[p + 3])
    THEN run_end("path", t, p + 3) ELSE 0
\* /(?:[^\s<>"'/]+/)+[^\s<>"']+ at p: a first segment, a slash and at least
\* one more character; the greedy tail then takes the whole run.
unix_match_end(t, p) ==
    IF t[p] # "/" THEN 0
    ELSE LET e == run_end("path", t, p + 1)
             slashes == {k \in (p + 2)..(e - 2) : t[k] = "/"}
         IN IF p + 1 < e /\ t[p + 1] # "/" /\ slashes # {} THEN e ELSE 0
\* \\\\[^\s<>"']+ at p
unc_match_end(t, p) ==
    IF /\ p + 2 <= Len(t)
       /\ t[p] = "\\"
       /\ t[p + 1] = "\\"
       /\ PathChar(t[p + 2])
    THEN run_end("path", t, p + 2) ELSE 0
\* The character classes of URL_PATTERN and HOSTNAME_PATTERN, by name.
InHostClass(class, c) ==
    CASE class = "url" -> UrlChar(c)
      [] class = "host" -> IsAlnum(c) \/ c \in {"-", "."}
      [] class = "alpha" -> IsUpper(c) \/ IsLower(c)
\* The end (exclusive) of the longest run of characters of such a class from p on.
host_run_end(class, t, p) ==
    LET stops == {i \in p..Len(t) : ~InHostClass(class, t[i])}
    IN IF stops = {} THEN Len(t) + 1
       ELSE CHOOSE i \in stops : \A i2 \in stops : i <= i2
\* https?://[^\s<>"')\]}>]+ with IGNORECASE at p
url_match_end(t, p) ==
    LET at(q, w) == q + Len(w) - 1 <= Len(t) /\ lower(SubSeq(t, q, q + Len(w) - 1)) = w
        after == IF at(p, <<"h", "t", "t", "p", "s", ":", "/", "/">>) THEN p + 8
                 ELSE IF at(p, <<"h", "t", "t", "p", ":", "/", "/">>) THEN p + 7 ELSE 0
    IN IF after # 0 /\ after <= Len(t) /\ UrlChar(t[after])
       THEN host_run_end("url", t, after) ELSE 0
\* HOSTNAME_PATTERN at p:
\* \b(?:[a-zA-Z0-9](?:[a-zA-Z0-9-]{0,61}[a-zA-Z0-9])?\.)+[a-zA-Z]{2,}\b
\* The labels are the stretches between the dots of the run of letters,
\* digits, hyphens and dots from p on; the match ends after the letters that
\* follow the last dot which only valid labels precede and which two or
\* more letters and a word boundary follow.
hostname_match_end(t, p) ==
    IF ~(Boundary(t, p) /\ IsAlnum(t[p])) THEN 0
    ELSE LET r == host_run_end("host", t, p)
             dots == {d \in p..(r - 1) : t[d] = "."}
             label_start(d) == Max({p - 1} \cup {d2 \in dots : d2 < d}) + 1
             valid(d) == /\ label_start(d) < d
                         /\ IsAlnum(t[label_start(d)])
                         /\ IsAlnum(t[d - 1])
                         /\ d - label_start(d) <= 63
             tld_end(d) == host_run_end("alpha", t, d + 1)
             ends == {d \in dots : /\ \A d2 \in dots : d2 <= d => valid(d2)
                                   /\ tld_end(d) - (d + 1) >= 2
                                   /\ Boundary(t, tld_end(d))}
         IN IF ends = {} THEN 0 ELSE tld_end(Max(ends))
\* The path patterns that finditer runs over a text, by name.
path_match_end(pattern, t, p) ==
    CASE pattern = "windows" -> windows_match_end(t, p)
      [] pattern = "unix" -> unix_match_end(t, p)
      [] pattern = "unc" -> unc_match_end(t, p)
\* URL_PATTERN and HOSTNAME_PATTERN, by name.
host_match_end(pattern, t, p) ==
    IF pattern = "url" THEN url_match_end(t, p) ELSE hostname_match_end(t, p)
\* pattern.finditer(text) for these two
RECURSIVE host_finditer(_, _, _)
host_finditer(pattern, t, p) ==
    IF p > Len(t) THEN <<>>
    ELSE LET e == host_match_end(pattern, t, p)
         IN IF e = 0 THEN host_finditer(pattern, t, p + 1)
            ELSE <<SubSeq(t, p, e - 1)>> \o host_finditer(pattern, t, e)
\* pattern.finditer(text): leftmost, non-overlapping matches from p on.
RECURSIVE path_finditer(_, _, _)
path_finditer(pattern, t, p) ==
    IF p > Len(t) THEN <<>>
    ELSE LET e == path_match_end(pattern, t, p)
         IN IF e = 0 THEN path_finditer(pattern, t, p + 1)
            ELSE <<SubSeq(t, p, e - 1)>> \o path_finditer(pattern, t, e)
\* while path and path[-1] in ".,;:!?)>]}": path = path[:-1]
RECURSIVE clean_trailing(_)
clean_trailing(path) ==
    IF path # <<>> /\ path[Len(path)] \in {".", ",", ";", ":", "!", "?", ")", ">", "]", "}"}
    THEN clean_trailing(SubSeq(path, 1, Len(path) - 1))
    ELSE path
Cleaned(found) == {clean_trailing(found[k]) : k \in 1..Len(found)}

extract_paths(text) ==
    IF text = <<>> THEN <<>>
    ELSE LET windows == {x \in Cleaned(path_finditer("windows", text, 1)) : x # <<>>}
             unix == {x \in Cleaned(path_finditer("unix", text, 1)) : Len(x) > 3}
             unc == {x \in Cleaned(path_finditer("unc", text, 1)) : x # <<>>}
         IN sorted(windows \cup unix \cup unc)

extract_urls(text) ==
    IF text = <<>> THEN <<>>
    ELSE sorted({x \in Cleaned(host_finditer("url", text, 1)) : x # <<>>})

\* extract_hostnames(text, domain), domain optional
extract_hostnames(text, domain) ==
    IF text = <<>> THEN <<>>
    ELSE LET matches == host_finditer("hostname", text, 1)
             hostnames == {lower(matches[k]) : k \in 1..Len(matches)}
         IN sorted({h \in hostnames :
                      /\ \A ext \in FALSE_TLDS : ~endswith(h, ext)
                      /\ (domain # None /\ domain[1] # <<>>) => endswith(h, lower(domain[1]))})

\* Pieces of text the inputs are put together from.
MaxFrags == 3
Fragments ==
    { <<"a", "@", "x", ".", "c", "o">>,
      <<"B", "@", "X", ".", "C", "O">>,
      <<"b", "@", "y", ".", "i", "o">>,
      <<"a", "@", "t", "e", "s", "t", ".", "c", "o", "m">>,
      <<"a", "@", "x", ".", "p", "d", "f">>,
      <<" ">>,
      <<"|">>,
      <<"m">>,
      <<".">> }
Texts == {Concat(ss) : ss \in SeqsUpTo(Fragments, MaxFrags)}

ExtractEmails ==
    /\ mret = None
    /\ mret' = Some(extract_emails(mtext))
    /\ UNCHANGED <<mtext, dvars, svars, rvars, pvars, xvars>>

MinerInit ==
    /\ mtext \in Texts
    /\ mret = None
    /\ ProcessorIdle
    /\ PipelineIdle
    /\ ExtraIdle
    /\ DownloadIdle
    /\ SearchIdle

MinerNext == ExtractEmails

\* The four functions of the Text Miner on one text.
Mine(text) ==
    [emails |-> extract_emails(text),
     urls |-> extract_urls(text),
     hostnames |-> extract_hostnames(text, None),
     paths |-> extract_paths(text)]

\* The chunks tried: up to MaxChunkPieces pieces each.
MaxChunkPieces == 1
ChunkPieces ==
    {<<"a", "@", "x", ".", "c", "o">>, <<"m">>, <<" ">>, <<"h", "t", "t", "p", ":", "/", "/", "h", ".", "i", "o", "/", "p">>, <<"/", "s", "r", "v", "/", "a", "/", "b">>, <<"w", ".", "x", ".", "o", "r", "g">>, <<"C", ":", "\\", "d">>, <<".">>,
     <<"a">>}
ChunkTexts == {Concat(ss) : ss \in SeqsUpTo(ChunkPieces, MaxChunkPieces)}
\* The second chunk is empty or one piece: what matters is how it begins.
ChunkTails == {<<>>} \cup ChunkPieces

\* Each function is called on the first chunk, on the second and on their
\* concatenation.
MineChunks ==
    /\ cfound = None
    /\ LET texts == [s |-> chunks[1], t |-> chunks[2], st |-> chunks[1] \o chunks[2]]
       IN cfound' = Some([k \in {"s", "t", "st"} |-> Mine(texts[k])])
    /\ UNCHANGED <<chunks, nvars, hvars, mvars, dvars, svars, rvars, pvars>>

ChunkInit ==
    /\ chunks \in ChunkTexts \X ChunkTails
    /\ cfound = None
    /\ NameIdle
    /\ ParseIdle
    /\ MinerIdle
    /\ ProcessorIdle
    /\ PipelineIdle
    /\ DownloadIdle
    /\ SearchIdle

ChunkNext == MineChunks

ChunkSpec == ChunkInit /\ [][ChunkNext]_vars

MinerSpec == MinerInit /\ [][MinerNext]_vars

(***************************************************************************)
(* Extractors: extractors/*.py                                             *)
(*                                                                         *)
(* A file is [name, is_file, doc]; doc is what the container libraries     *)
(* read from it: error (the exception of the parse, optional), the         *)
(* properties (each optional; an empty property reads as absent) and text  *)
(* (what extract_text gets, optional).                                     *)
(***************************************************************************)
Range(s) == {s[k] : k \in 1..Len(s)}
Contains(t, c) == \E k \in 1..Len(t) : t[k] = c

\* FileType
FileTypeValues ==
    { <<"p", "d", "f">>, <<"d", "o", "c">>, <<"d", "o", "c", "x">>, <<"x", "l", "s">>, <<"x", "l", "s", "x">>, <<"p", "p", "t">>, <<"p", "p", "t", "x">>, <<"o", "d", "s">>, <<"o", "d", "p">>, <<"o", "d", "t">> }
\* EXTRACTOR_REGISTRY
EXTRACTOR_REGISTRY(file_type) ==
    CASE file_type = <<"p", "d", "f">> -> "PDFExtractor"
      [] file_type \in {<<"d", "o", "c">>, <<"x", "l", "s">>, <<"p", "p", "t">>} -> "LegacyOfficeExtractor"
      [] file_type = <<"d", "o", "c", "x">> -> "DOCXExtractor"
      [] file_type = <<"x", "l", "s", "x">> -> "XLSXExtractor"
      [] file_type = <<"p", "p", "t", "x">> -> "PPTXExtractor"
      [] file_type \in {<<"o", "d", "s">>, <<"o", "d", "p">>, <<"o", "d", "t">>} -> "OpenOfficeExtractor"

\* Path.suffix: the name from its last dot on, unless that dot leads or ends it.
suffix(name) ==
    LET dots == {k \in 1..Len(name) : name[k] = "."}
    IN IF dots = {} THEN <<>>
       ELSE LET i == CHOOSE k \in dots : \A k2 \in dots : k2 <= k
            IN IF 1 < i /\ i < Len(name) THEN SubSeq(name, i, Len(name)) ELSE <<>>
\* str.lstrip(".")
RECURSIVE lstrip_dot(_)
lstrip_dot(t) == IF t # <<>> /\ Head(t) = "." THEN lstrip_dot(Tail(t)) ELSE t
\* str.strip()
RECURSIVE strip(_)
strip(t) ==
    IF t # <<>> /\ Head(t) = " " THEN strip(Tail(t))
    ELSE IF t # <<>> /\ t[Len(t)] = " " THEN strip(SubSeq(t, 1, Len(t) - 1))
    ELSE t

\* file_path.suffix.lstrip(".").lower()
file_ext(name) == lower(lstrip_dot(suffix(name)))

\* get_extractor: the extractor class for the file, None if unsupported.
get_extractor(file) ==
    IF file_ext(file.name) \in FileTypeValues
    THEN Some(EXTRACTOR_REGISTRY(file_ext(file.name))) ELSE None

\* _clean_string on a property that is present
_clean_string(value) == strip(value)

\* if value not in list: list.append(value)
append_always(list, value) == Append(list, value)
append_unique(list, value) ==
    IF value \in Range(list) THEN list ELSE Append(list, value)
\* The same for an optional value that is appended when present and non-empty.
add_value(list, o) ==
    IF o # None /\ o[1] # <<>> THEN append_unique(list, o[1]) ELSE list
has_separator(t) == Contains(t, "/") \/ Contains(t, "\\")
\* if "/" in value or "\\" in value: paths.append(value)
add_path(list, o) ==
    IF o # None /\ has_separator(o[1]) THEN Append(list, o[1]) ELSE list
\* A property after _clean_string (absent stays absent).
Clean(o) == IF o = None THEN None ELSE Some(_clean_string(o[1]))
\* An attribute that is assigned only when the value is non-empty.
NonEmpty(o) == IF o # None /\ o[1] # <<>> THEN o ELSE None

ExtractionResult(success, metadata, error) ==
    [success |-> success, metadata |-> metadata, error |-> error]
Failure(msg) == ExtractionResult(FALSE, None, Some(msg))

\* _create_base_metadata and the fields the extractors fill in.
DocumentMetadata(file, author, last_modified_by, users, software, template, paths, emails) ==
    [filename |-> file.name,
     file_type |-> IF file_ext(file.name) \in FileTypeValues THEN file_ext(file.name) ELSE <<"p", "d", "f">>,
     source_url |-> None,
     author |-> author, last_modified_by |-> last_modified_by, users |-> users,
     software |-> software, template |-> template, paths |-> paths,
     emails |-> emails]

\* str() of a character sequence, for messages
RECURSIVE join(_)
join(chars) == IF chars = <<>> THEN "" ELSE Head(chars) \o join(Tail(chars))

\* PDFExtractor.extract and _extract_info
PDFExtractor_extract(file) ==
    LET d == file.doc
    IN IF d.error # None THEN Failure(d.error[1].msg)
       ELSE ExtractionResult(TRUE, Some(DocumentMetadata(file,
                NonEmpty(d.author), None,
                add_value(<<>>, d.author),
                add_value(add_value(<<>>, d.creator), d.producer),
                None,
                add_path(<<>>, d.title),
                IF d.subject # None /\ Contains(d.subject[1], "@")
                THEN <<d.subject[1]>> ELSE <<>>)), None)

\* LegacyOfficeExtractor.extract
LegacyOfficeExtractor_extract(file) ==
    LET d == file.doc
    IN IF d.error # None
       THEN Failure(IF d.error[1].type = "NotContainer" THEN "Not a valid OLE file"
                    ELSE d.error[1].msg)
       ELSE ExtractionResult(TRUE, Some(DocumentMetadata(file,
                NonEmpty(d.author), NonEmpty(d.last_modified_by),
                add_value(add_value(add_value(<<>>, d.author), d.last_modified_by),
                          d.manager),
                add_value(<<>>, d.application),
                NonEmpty(d.template),
                add_path(<<>>, d.template),
                <<>>)), None)

\* DOCXExtractor.extract and _extract_app_info
DOCXExtractor_extract(file) ==
    LET d == file.doc
    IN IF d.error # None
       THEN Failure(IF d.error[1].type = "PackageNotFoundError"
                    THEN "Invalid DOCX file: " \o d.error[1].msg
                    ELSE d.error[1].msg)
       ELSE ExtractionResult(TRUE, Some(DocumentMetadata(file,
                Clean(d.author), Clean(d.last_modified_by),
                add_value(add_value(<<>>, Clean(d.author)), Clean(d.last_modified_by)),
                add_value(<<>>, d.application),
                d.template,
                add_path(<<>>, d.template),
                <<>>)), None)

\* PPTXExtractor.extract and _extract_app_info: the template is kept, but
\* nothing is added to paths.
PPTXExtractor_extract(file) ==
    LET d == file.doc
    IN IF d.error # None THEN Failure(d.error[1].msg)
       ELSE ExtractionResult(TRUE, Some(DocumentMetadata(file,
                Clean(d.author), Clean(d.last_modified_by),
                add_value(add_value(<<>>, Clean(d.author)), Clean(d.last_modified_by)),
                add_value(<<>>, d.application),
                d.template,
                <<>>,
                <<>>)), None)

\* XLSXExtractor.extract and _extract_app_info: no template is read.
XLSXExtractor_extract(file) ==
    LET d == file.doc
    IN IF d.error # None THEN Failure(d.error[1].msg)
       ELSE ExtractionResult(TRUE, Some(DocumentMetadata(file,
                Clean(d.author), Clean(d.last_modified_by),
                add_value(add_value(<<>>, Clean(d.author)), Clean(d.last_modified_by)),
                add_value(<<>>, d.application),
                None,
                <<>>,
                <<>>)), None)

\* OpenOfficeExtractor.extract and _extract_meta
OpenOfficeExtractor_extract(file) ==
    LET d == file.doc
    IN IF d.error # None
       THEN Failure(CASE d.error[1].type = "NotContainer" -> "Not a valid OpenDocument file"
                      [] d.error[1].type = "NoMeta" -> "meta.xml not found in document"
                      [] OTHER -> d.error[1].msg)
       ELSE ExtractionResult(TRUE, Some(DocumentMetadata(file,
                Clean(d.author), None,
                add_value(add_value(<<>>, Clean(d.author)), Clean(d.initial_creator)),
                IF d.application # None
                THEN append_unique(<<>>, _clean_string(d.application[1])) ELSE <<>>,
                d.template,
                add_path(<<>>, d.template),
                <<>>)), None)

\* extractor.extract() for the class get_extractor chose
extract(class, file) ==
    CASE class = "PDFExtractor" -> PDFExtractor_extract(file)
      [] class = "LegacyOfficeExtractor" -> LegacyOfficeExtractor_extract(file)
      [] class = "DOCXExtractor" -> DOCXExtractor_extract(file)
      [] class = "XLSXExtractor" -> XLSXExtractor_extract(file)
      [] class = "PPTXExtractor" -> PPTXExtractor_extract(file)
      [] class = "OpenOfficeExtractor" -> OpenOfficeExtractor_extract(file)

\* extractor.extract_text(): nothing for the legacy formats, and nothing when
\* reading the text raises.
extract_text(class, file) ==
    IF class = "LegacyOfficeExtractor" THEN None ELSE file.doc.text

extract_metadata(file) ==
    LET extractor == get_extractor(file)
    IN IF extractor = None
       THEN Failure("Unsupported file type: " \o join(suffix(file.name)))
       ELSE extract(extractor[1], file)

(***************************************************************************)
(* ResultProcessor: processing/processor.py                                *)
(***************************************************************************)
ScanResults(docs, fails) == [documents |-> docs, failed |-> fails]

\* _enrich_metadata: the emails and paths of the text, each added unless
\* it is in the list already.
RECURSIVE add_each(_, _)
add_each(list, values) ==
    IF values = <<>> THEN list
    ELSE add_each(append_unique(list, Head(values)), Tail(values))
_enrich_metadata(file, metadata) ==
    LET extractor == get_extractor(file)
        text == IF extractor = None THEN None ELSE extract_text(extractor[1], file)
    IN IF text = None \/ text[1] = <<>> THEN metadata
       ELSE [metadata EXCEPT !.emails = add_each(@, extract_emails(text[1])),
                             !.paths = add_each(@, extract_paths(text[1]))]

\* self.results.documents.append(result.metadata)
record_success_first(results, metadata) ==
    ScanResults(<<metadata>> \o results.documents, results.failed)
record_success(results, metadata) ==
    ScanResults(Append(results.documents, metadata), results.failed)
\* self.results.failed.append((str(file_path), error))
record_failure_resetting(results, path, error) ==
    ScanResults(<<>>, Append(results.failed, <<path, error>>))
record_failure(results, path, error) ==
    ScanResults(results.documents, Append(results.failed, <<path, error>>))

\* process_file: the ScanResults after the call.
process_file_text_required(results, file, source_url) ==
    LET result == extract_metadata(file)
        extractor == get_extractor(file)
    IN IF /\ result.success
          /\ result.metadata # None
          /\ extractor # None
          /\ extract_text(extractor[1], file) # None
       THEN record_success(results, _enrich_metadata(file, result.metadata[1]))
       ELSE record_failure(results, file.name, "Unknown error")
process_file(results, file, source_url) ==
    LET result == extract_metadata(file)
    IN IF result.success /\ result.metadata # None
       THEN LET stamped == IF source_url # None /\ source_url[1] # <<>>
                           THEN [result.metadata[1] EXCEPT !.source_url = source_url]
                           ELSE result.metadata[1]
            IN record_success(results, _enrich_metadata(file, stamped))
       ELSE record_failure(results, file.name,
                           IF result.error # None /\ result.error[1] # ""
                           THEN result.error[1] ELSE "Unknown error")

\* ScanResults.unique_users / unique_software / unique_emails / unique_paths:
\* a set is filled from the list of every document and returned sorted.
unique_first_seen(lists) == Concat(lists)
unique(lists) == sorted(UNION {Range(lists[k]) : k \in 1..Len(lists)})
unique_users(results) ==
    unique([k \in 1..Len(results.documents) |-> results.documents[k].users])
unique_software(results) ==
    unique([k \in 1..Len(results.documents) |-> results.documents[k].software])
unique_emails(results) ==
    unique([k \in 1..Len(results.documents) |-> results.documents[k].emails])
unique_paths(results) ==
    unique([k \in 1..Len(results.documents) |-> results.documents[k].paths])
\* ScanResults.stats
stats(results) ==
    [total_documents |-> Len(results.documents),
     failed_extractions |-> Len(results.failed),
     unique_users |-> Len(unique_users(results)),
     unique_software |-> Len(unique_software(results)),
     unique_emails |-> Len(unique_emails(results)),
     unique_paths |-> Len(unique_paths(results))]

is_supported_any_entry(entry) ==
    file_ext(entry.name) \in FileTypeValues
\* The entries of a directory that process_directory hands to process_file.
is_supported(entry) ==
    entry.is_file /\ file_ext(entry.name) \in FileTypeValues
RECURSIVE process_each(_, _)
process_each(results, files) ==
    IF files = <<>> THEN results
    ELSE process_each(process_file(results, Head(files), None), Tail(files))

Operation(op, arg) == [op |-> op, arg |-> arg, n |-> pop.n + 1]

ProcessFile(file, source_url) ==
    LET after == process_file(ScanResults(documents, failed), file, source_url)
    IN /\ documents' = after.documents
       /\ failed' = after.failed
       /\ pcalls' = Append(pcalls, file)
       /\ pop' = Operation("process_file", file)
       /\ UNCHANGED <<dvars, svars, mvars, pvars, xvars>>

\* process_directory over directory.iterdir() in the order it yields.
ProcessDirectory(listing) ==
    LET files == SelectSeq(listing, is_supported)
        after == process_each(ScanResults(documents, failed), files)
    IN /\ documents' = after.documents
       /\ failed' = after.failed
       /\ pcalls' = pcalls \o files
       /\ pop' = Operation("process_directory", listing)
       /\ UNCHANGED <<dvars, svars, mvars, pvars, xvars>>

\* What the files of the model hold.
Opt(S) == {None} \cup {Some(v) : v \in S}
NoDoc ==
    [error |-> None, author |-> None, last_modified_by |-> None, manager |-> None,
     initial_creator |-> None, creator |-> None, producer |-> None,
     application |-> None, title |-> None, template |-> None, subject |-> None,
     text |-> None]
Broken(type, msg) == [NoDoc EXCEPT !.error = Some([type |-> type, msg |-> msg])]
UserNames == {<<"a", "l">>, <<" ", "a", "l">>, <<"b", "o">>}
DocTexts ==
    {None, Some(<<>>), Some(<<"a", "@", "x", ".", "c", "o", "m">>), Some(<<"b", "@", "y", ".", "c", "o", "m", " ", "a", "@", "x", ".", "c", "o", "m", " ", "i", "n", " ", "/", "s", "r", "v", "/", "t", ".", "d", "o", "t", ".">>)}
PDFDocs ==
    {[NoDoc EXCEPT !.author = c[1], !.creator = c[2], !.producer = c[3],
                   !.title = c[4], !.subject = c[5], !.text = c[6]] :
       c \in Opt({<<"a", "l">>}) \X Opt({<<"W", "o", "r", "d">>}) \X Opt({<<"W", "o", "r", "d">>, <<"A", "c", "r", "o", "b", "a", "t">>})
             \X Opt({<<"/", "s", "r", "v", "/", "t", ".", "d", "o", "t">>, <<"P", "l", "a", "n">>}) \X Opt({<<"a", "@", "x", ".", "c", "o", "m">>, <<"n", "o", "n", "e">>}) \X DocTexts}
    \cup {Broken("Exception", m) : m \in {"", "No /Root object"}}
LegacyDocs ==
    {[NoDoc EXCEPT !.author = c[1], !.last_modified_by = c[2], !.manager = c[3],
                   !.application = c[4], !.template = c[5]] :
       c \in Opt({<<"a", "l">>}) \X Opt({<<"a", "l">>, <<"b", "o">>}) \X Opt({<<"a", "l">>, <<"b", "o">>})
             \X Opt({<<"W", "o", "r", "d">>}) \X Opt({<<"C", ":", "\\", "t", ".", "d", "o", "t">>, <<"N", "o", "r", "m", "a", "l", ".", "d", "o", "t">>})}
    \cup {Broken("NotContainer", ""), Broken("Exception", "truncated")}
OOXMLDocs ==
    {[NoDoc EXCEPT !.author = c[1], !.last_modified_by = c[2], !.application = c[3],
                   !.template = c[4], !.text = c[5]] :
       c \in Opt({<<"a", "l">>}) \X Opt(UserNames) \X Opt({<<"W", "o", "r", "d">>})
             \X Opt({<<"/", "s", "r", "v", "/", "t", ".", "d", "o", "t">>, <<"N", "o", "r", "m", "a", "l", ".", "d", "o", "t", "m">>}) \X DocTexts}
    \cup {Broken("PackageNotFoundError", "Package not found"), Broken("Exception", "")}
OpenDocuments ==
    {[NoDoc EXCEPT !.author = c[1], !.initial_creator = c[2], !.application = c[3],
                   !.template = c[4], !.text = c[5]] :
       c \in Opt({<<"a", "l">>}) \X Opt(UserNames) \X Opt({<<"W", "r", "i", "t", "e", "r">>, <<" ">>})
             \X Opt({<<"/", "s", "r", "v", "/", "t", ".", "o", "t", "t">>}) \X DocTexts}
    \cup {Broken("NotContainer", ""), Broken("NoMeta", ""), Broken("Exception", "bad xml")}
File(name, doc) == [name |-> name, is_file |-> TRUE, doc |-> doc]
Directory(name) == [name |-> name, is_file |-> FALSE, doc |-> NoDoc]
\* Every file a single process_file call is tried on.
AllFiles ==
    {File(<<"r", ".", "p", "d", "f">>, d) : d \in PDFDocs}
    \cup {File(n, d) : n \in {<<"r", ".", "d", "o", "c">>, <<"r", ".", "X", "L", "S">>}, d \in LegacyDocs}
    \cup {File(n, d) : n \in {<<"r", ".", "d", "o", "c", "x">>, <<"r", ".", "p", "p", "t", "x">>, <<"r", ".", "x", "l", "s", "x">>}, d \in OOXMLDocs}
    \cup {File(<<"r", ".", "o", "d", "t">>, d) : d \in OpenDocuments}
    \cup {File(n, NoDoc) : n \in {<<"n", "o", "t", "e", "s", ".", "t", "x", "t">>, <<"R", "E", "A", "D", "M", "E">>, <<".", "p", "d", "f">>, <<"r", ".", "p", "d", "f", ".">>}}

\* The files and directories a processor is run on.
MaxOps == 2
a_pdf ==
    File(<<"a", ".", "p", "d", "f">>, [NoDoc EXCEPT !.author = Some(<<"a", "l">>), !.creator = Some(<<"W", "o", "r", "d">>),
                                 !.producer = Some(<<"A", "c", "r", "o", "b", "a", "t">>),
                                 !.title = Some(<<"/", "s", "r", "v", "/", "t", ".", "d", "o", "t">>),
                                 !.subject = Some(<<"a", "@", "x", ".", "c", "o", "m">>),
                                 !.text = Some(<<"b", "@", "y", ".", "c", "o", "m", " ", "a", "@", "x", ".", "c", "o", "m", " ", "i", "n", " ", "/", "s", "r", "v", "/", "t", ".", "d", "o", "t", ".">>)])
b_docx ==
    File(<<"b", ".", "d", "o", "c", "x">>, [NoDoc EXCEPT !.author = Some(<<" ", "a", "l">>),
                                  !.last_modified_by = Some(<<"b", "o">>),
                                  !.application = Some(<<"W", "o", "r", "d">>),
                                  !.text = Some(<<"a", "@", "x", ".", "c", "o", "m">>)])
c_doc ==
    File(<<"c", ".", "d", "o", "c">>, [NoDoc EXCEPT !.author = Some(<<"b", "o">>), !.manager = Some(<<"A", "l">>),
                                 !.application = Some(<<"E", "x", "c", "e", "l">>)])
d_pdf == File(<<"d", ".", "p", "d", "f">>, Broken("Exception", ""))
e_txt == File(<<"e", ".", "t", "x", "t">>, NoDoc)
F_PDF == File(<<"F", ".", "P", "D", "F">>, [NoDoc EXCEPT !.author = Some(<<"b", "o">>)])
g_pdf == Directory(<<"g", ".", "p", "d", "f">>)
SomeFiles == {a_pdf, b_docx, c_doc, d_pdf, e_txt, F_PDF}
SourceUrls == {None, Some(<<"h", "t", "t", "p", "s", ":", "/", "/", "a", ".", "e", "x", "a", "m", "p", "l", "e", "/", "r", "e", "p", "o", "r", "t", ".", "p", "d", "f">>)}
\* directory.iterdir() yields the entries in an arbitrary order.
Orders(S) ==
    {l \in [1..Cardinality(S) -> S] : \A i, j \in 1..Cardinality(S) : l[i] = l[j] => i = j}
Listings == Orders({a_pdf, e_txt}) \cup Orders({F_PDF, g_pdf, d_pdf}) \cup {<<>>}

\* ResultProcessor(domain)
ProcessorInit ==
    /\ ProcessorIdle
    /\ MinerIdle
    /\ PipelineIdle
    /\ ExtraIdle
    /\ DownloadIdle
    /\ SearchIdle

ProcessorNext ==
    \/ \E file \in SomeFiles, source_url \in SourceUrls :
         pop.n < MaxOps /\ ProcessFile(file, source_url)
    \/ \E listing \in Listings :
         pop.n < MaxOps /\ ProcessDirectory(listing)

ProcessorSpec == ProcessorInit /\ [][ProcessorNext]_vars

\* One process_file call of a new processor, on any file.
ExtractNext ==
    \E file \in AllFiles, source_url \in SourceUrls :
        pop.n = 0 /\ ProcessFile(file, source_url)

ExtractSpec == ProcessorInit /\ [][ExtractNext]_vars

(***************************************************************************)
(* search_and_extract: cli.py                                              *)
(*                                                                         *)
(* One run over file_types. A search is one step: it returns the urls it   *)
(* found or raises. The downloads of a batch finish one at a time in any   *)
(* order, and download_files returns when the last has finished. A file    *)
(* that was downloaded holds what its url serves. The task running the     *)
(* coroutine may be cancelled at any await.                                *)
(***************************************************************************)
Sessions == {"none", "open", "closed"}
\* DuckDuckGoSearch._get_session
get_session(s) == IF s = "none" \/ s = "closed" THEN "open" ELSE s
\* DuckDuckGoSearch.close: the session after the call and what it raised.
close(s) ==
    [session |-> IF s # "none" /\ s # "closed" THEN "closed" ELSE s, raised |-> None]

u_a == <<"h", "t", "t", "p", "s", ":", "/", "/", "a", ".", "e", "x", "a", "m", "p", "l", "e", "/", "a", ".", "p", "d", "f">>
u_d == <<"h", "t", "t", "p", "s", ":", "/", "/", "a", ".", "e", "x", "a", "m", "p", "l", "e", "/", "d", ".", "p", "d", "f">>
u_b == <<"h", "t", "t", "p", "s", ":", "/", "/", "a", ".", "e", "x", "a", "m", "p", "l", "e", "/", "b", ".", "d", "o", "c", "x">>
\* What a search for a file type may return, and the errors it may raise.
SearchAnswers(file_type) ==
    IF file_type = <<"p", "d", "f">> THEN {<<>>, <<u_a>>, <<u_a, u_d>>, <<u_d, u_a>>}
    ELSE {<<>>, <<u_b>>}
SearchErrors == {"SearchError", "TimeoutError"}
FileTypeLists == {<<>>, <<<<"p", "d", "f">>>>, <<<<"d", "o", "c", "x">>>>, <<<<"p", "d", "f">>, <<"d", "o", "c", "x">>>>, <<<<"d", "o", "c", "x">>, <<"p", "d", "f">>>>}
DownloadLimits == {1, 2}
\* The file that a url serves and the one found at a local path.
RemoteFile(url) == CHOOSE f \in SomeFiles : endswith(url, <<"/">> \o f.name)
FileAt(local_path) == CHOOSE f \in SomeFiles : f.name = local_path
\* The DownloadResults _download_file may return for a url.
DownloadOutcomes(url) ==
    {SuccessResult(url, RemoteFile(url).name), HttpErrorResult(url, 404),
     UnexpectedResult(url, "")}

RunEvent(ev, url) == [ev |-> ev, type |-> ft_idx, url |-> url]

\* search_files returned; without results the loop continues, otherwise
\* download_files is called and creates its tasks.
SearchReturns(answer) ==
    /\ rpc = "search"
    /\ ft_idx <= Len(file_types)
    /\ answer \in SearchAnswers(file_types[ft_idx])
    /\ session' = get_session(session)
    /\ rlog' = Append(rlog, RunEvent("searched", <<>>))
    /\ IF answer = <<>>
       THEN /\ ft_idx' = ft_idx + 1
            /\ UNCHANGED <<rpc, batch>>
       ELSE LET todo == urls_to_download(answer, Some(download_limit))
            IN /\ batch' = [k \in 1..Len(todo) |-> [url |-> todo[k], result |-> None]]
               /\ rpc' = "download"
               /\ UNCHANGED ft_idx
    /\ UNCHANGED <<file_types, download_limit, closes, download_results, dk, produced,
                   rexc, documents, failed, pcalls, pop, mvars, dvars, svars, xvars>>

\* search_files raised an Exception: except Exception ... continue
SearchFailsFatal(error) ==
    /\ rpc = "search"
    /\ ft_idx <= Len(file_types)
    /\ session' = get_session(session)
    /\ rlog' = Append(rlog, RunEvent("search_failed", <<>>))
    /\ rexc' = Some(error)
    /\ rpc' = "finally"
    /\ UNCHANGED <<file_types, download_limit, ft_idx, closes, batch, download_results, dk,
                   produced, documents, failed, pcalls, pop, mvars, dvars, svars, xvars>>
SearchFails(error) ==
    /\ rpc = "search"
    /\ ft_idx <= Len(file_types)
    /\ session' = get_session(session)
    /\ rlog' = Append(rlog, RunEvent("search_failed", <<>>))
    /\ ft_idx' = ft_idx + 1
    /\ UNCHANGED <<file_types, download_limit, rpc, closes, batch, download_results, dk,
                   produced, rexc, documents, failed, pcalls, pop, mvars, dvars, svars, xvars>>

\* download_files raised before its tasks ran (output_dir.mkdir).
DownloadRaises ==
    /\ rpc = "download"
    /\ \A k \in 1..Len(batch) : batch[k].result = None
    /\ rexc' = Some("OSError")
    /\ rpc' = "finally"
    /\ UNCHANGED <<file_types, download_limit, ft_idx, session, closes, batch,
                   download_results, dk, rlog, produced, documents, failed, pcalls, pop,
                   mvars, dvars, svars, xvars>>

\* One _download_file task of the batch finished.
TaskDone(k, result) ==
    /\ rpc = "download"
    /\ batch[k].result = None
    /\ batch' = [batch EXCEPT ![k].result = Some(result)]
    /\ rlog' = Append(rlog, RunEvent("downloaded", batch[k].url))
    /\ UNCHANGED <<file_types, download_limit, ft_idx, rpc, session, closes,
                   download_results, dk, produced, rexc, documents, failed, pcalls, pop,
                   mvars, dvars, svars, xvars>>

\* gather returned the results in the order of the urls.
DownloadFilesReturns ==
    /\ rpc = "download"
    /\ \A k \in 1..Len(batch) : batch[k].result # None
    /\ download_results' = [k \in 1..Len(batch) |-> batch[k].result[1]]
    /\ produced' = produced \o download_results'
    /\ dk' = 1
    /\ rpc' = "extract"
    /\ UNCHANGED <<file_types, download_limit, ft_idx, session, closes, batch, rlog, rexc,
                   documents, failed, pcalls, pop, mvars, dvars, svars, xvars>>

\* The ScanResults after the body of the loop over download_results.
handle_or_drop(results, dl_result) ==
    IF dl_result.success /\ dl_result.local_path # None
    THEN process_file(results, FileAt(dl_result.local_path[1]), Some(dl_result.url))
    ELSE results
handle(results, dl_result) ==
    IF dl_result.success /\ dl_result.local_path # None
    THEN process_file(results, FileAt(dl_result.local_path[1]), Some(dl_result.url))
    ELSE IF ~dl_result.success
    THEN record_failure(results, dl_result.url,
                        IF dl_result.error # None /\ dl_result.error[1] # ""
                        THEN dl_result.error[1] ELSE "Download failed")
    ELSE results

\* One pass of the loop over download_results; after the last the for loop
\* over file_types goes on.
HandleResult ==
    /\ rpc = "extract"
    /\ LET dl_result == download_results[dk]
           called == dl_result.success /\ dl_result.local_path # None
           after == handle(ScanResults(documents, failed), dl_result)
       IN /\ documents' = after.documents
          /\ failed' = after.failed
          /\ IF called
             THEN /\ pcalls' = Append(pcalls, FileAt(dl_result.local_path[1]))
                  /\ pop' = Operation("process_file", FileAt(dl_result.local_path[1]))
             ELSE UNCHANGED <<pcalls, pop>>
          /\ rlog' = Append(rlog, RunEvent(IF ~called THEN "not_downloaded"
                                        ELSE IF Len(after.documents) > Len(documents)
                                        THEN "extracted" ELSE "extract_failed",
                                        dl_result.url))
    /\ dk' = dk + 1
    /\ IF dk = Len(download_results)
       THEN rpc' = "search" /\ ft_idx' = ft_idx + 1
       ELSE UNCHANGED <<rpc, ft_idx>>
    /\ UNCHANGED <<file_types, download_limit, session, closes, batch, download_results,
                   produced, rexc, mvars, dvars, svars, xvars>>

\* The task is cancelled while it awaits a search or a download, or the run
\* is interrupted during an extraction.
Interrupted ==
    /\ rpc \in {"search", "download", "extract"}
    /\ rpc = "search" => ft_idx <= Len(file_types)
    /\ rexc' = Some("CancelledError")
    /\ rpc' = "finally"
    /\ UNCHANGED <<file_types, download_limit, ft_idx, session, closes, batch,
                   download_results, dk, rlog, produced, documents, failed, pcalls, pop,
                   mvars, dvars, svars, xvars>>

\* The for loop over file_types is exhausted.
LoopEnds ==
    /\ rpc = "search"
    /\ ft_idx > Len(file_types)
    /\ rpc' = "finally"
    /\ UNCHANGED <<file_types, download_limit, ft_idx, session, closes, batch,
                   download_results, dk, rlog, produced, rexc, documents, failed, pcalls,
                   pop, mvars, dvars, svars, xvars>>

\* finally: await search_engine.close(); then the return, or the exception
\* goes on to the caller.
FinallyReturnOnly ==
    /\ rpc = "finally"
    /\ IF rexc = None
       THEN /\ session' = close(session).session
            /\ closes' = closes + 1
            /\ rpc' = "returned"
            /\ UNCHANGED rexc
       ELSE /\ rpc' = "raised"
            /\ UNCHANGED <<session, closes, rexc>>
    /\ UNCHANGED <<file_types, download_limit, ft_idx, batch, download_results, dk, rlog,
                   produced, documents, failed, pcalls, pop, mvars, dvars, svars, xvars>>
Finally ==
    /\ rpc = "finally"
    /\ session' = close(session).session
    /\ closes' = closes + 1
    /\ rexc' = IF close(session).raised # None THEN close(session).raised ELSE rexc
    /\ rpc' = IF rexc' = None THEN "returned" ELSE "raised"
    /\ UNCHANGED <<file_types, download_limit, ft_idx, batch, download_results, dk, rlog,
                   produced, documents, failed, pcalls, pop, mvars, dvars, svars, xvars>>

PipelineInit ==
    /\ file_types \in FileTypeLists
    /\ download_limit \in DownloadLimits
    /\ ft_idx = 1
    /\ rpc = "search"
    /\ session = "none"
    /\ closes = 0
    /\ batch = <<>>
    /\ download_results = <<>>
    /\ dk = 1
    /\ rlog = <<>>
    /\ produced = <<>>
    /\ rexc = None
    /\ ProcessorIdle
    /\ MinerIdle
    /\ ExtraIdle
    /\ DownloadIdle
    /\ SearchIdle

PipelineNext ==
    \/ \E answer \in UNION {SearchAnswers(t) : t \in {<<"p", "d", "f">>, <<"d", "o", "c", "x">>}} :
         SearchReturns(answer)
    \/ \E error \in SearchErrors : SearchFails(error)
    \/ DownloadRaises
    \/ \E k \in 1..Len(batch) : \E result \in DownloadOutcomes(batch[k].url) :
         TaskDone(k, result)
    \/ DownloadFilesReturns
    \/ HandleResult
    \/ Interrupted
    \/ LoopEnds
    \/ Finally

PipelineSpec == PipelineInit /\ [][PipelineNext]_vars

(***************************************************************************)
(* _download_file from the url to the path written, character by           *)
(* character: download/downloader.py                                       *)
(*                                                                         *)
(* A path is the sequence of its components. The urls are https urls with  *)
(* a host; the escapes they hold stand for printable ASCII characters.     *)
(***************************************************************************)
\* The first position from p on where t holds one of cs, Len(t) + 1 if none.
find_any(t, cs, p) ==
    LET hits == {i \in p..Len(t) : t[i] \in cs}
    IN IF hits = {} THEN Len(t) + 1 ELSE CHOOSE i \in hits : \A i2 \in hits : i <= i2
\* The last position where t holds c, 0 if none.
rfind(t, c) ==
    LET hits == {i \in 1..Len(t) : t[i] = c}
    IN IF hits = {} THEN 0 ELSE CHOOSE i \in hits : \A i2 \in hits : i2 <= i

\* urlparse(url).path of scheme://netloc/path;params?query#fragment
urlparse_path(url) ==
    LET colon == find_any(url, {":"}, 1)
        start == find_any(url, {"/", "?", "#"}, colon + 3)
        rest == SubSeq(url, start, find_any(url, {"?", "#"}, start) - 1)
        params == find_any(rest, {";"}, rfind(rest, "/") + 1)
    IN SubSeq(rest, 1, params - 1)

HexDigits == <<"0", "1", "2", "3", "4", "5", "6", "7", "8", "9", "a", "b", "c", "d", "e", "f">>
IsHex(c) == \E k \in 1..Len(HexDigits) : HexDigits[k] = lower_char(c)
HexVal(c) == (CHOOSE k \in 1..Len(HexDigits) : HexDigits[k] = lower_char(c)) - 1
\* urllib.parse.unquote: every % that two hexadecimal digits follow becomes,
\* with them, the character of that code.
unquote(t) ==
    LET escapes == {i \in 1..(Len(t) - 2) :
                      t[i] = "%" /\ IsHex(t[i + 1]) /\ IsHex(t[i + 2])}
        before(i) == Cardinality({e \in escapes : e < i})
        source(k) == CHOOSE i \in k..(k + 2 * Cardinality(escapes)) :
                        /\ i - 2 * before(i) = k
                        /\ (i - 1) \notin escapes
                        /\ (i - 2) \notin escapes
    IN [k \in 1..(Len(t) - 2 * Cardinality(escapes)) |->
          IF source(k) \in escapes
          THEN Chr(16 * HexVal(t[source(k) + 1]) + HexVal(t[source(k) + 2]))
          ELSE t[source(k)]]

\* unsafe_chars
unsafe_chars == <<"<", ">", ":", "\"", "/", "\\", "|", "?", "*">>
\* len(filename) > 200, and name[:190]
MaxNameLen == 200
KeptStemLen == 190
\* _sanitize_filename
_sanitize_filename(filename) ==
    LET replaced == [k \in 1..Len(filename) |->
                       IF Contains(unsafe_chars, filename[k]) THEN "_" ELSE filename[k]]
        dot == rfind(replaced, ".")
        name == IF dot > 0 THEN SubSeq(replaced, 1, dot - 1) ELSE replaced
        ext == IF dot > 0 THEN SubSeq(replaced, dot + 1, Len(replaced)) ELSE <<>>
    IN IF Len(replaced) > MaxNameLen
       THEN SubSeq(name, 1, Min(KeptStemLen, Len(name)))
              \o (IF ext # <<>> THEN <<".">> \o ext ELSE <<>>)
       ELSE replaced

\* _extract_filename up to the call of _sanitize_filename
raw_filename(url) ==
    LET path == unquote(urlparse_path(url))
        last == SubSeq(path, rfind(path, "/") + 1, Len(path))
        cut == SubSeq(last, 1, find_any(last, {"?"}, 1) - 1)
    IN IF cut = <<>> THEN <<"d", "o", "w", "n", "l", "o", "a", "d", "e", "d", "_", "f", "i", "l", "e">> ELSE cut
\* _extract_filename
_extract_filename(url) == _sanitize_filename(raw_filename(url))
\* str(counter)
RECURSIVE str_int(_)
str_int(k) ==
    IF k < 10 THEN <<Chr(48 + k)>> ELSE str_int(k \div 10) \o <<Chr(48 + (k % 10))>>

\* self.output_dir
OUTPUT_DIR == <<<<"d", "o", "w", "n", "l", "o", "a", "d", "s">>>>
\* self.output_dir / filename: pathlib drops a "." component; the name
\* holds no "/" after _sanitize_filename.
join_path(dir, filename) ==
    IF filename = <<".">> \/ filename = <<>> THEN dir ELSE Append(dir, filename)
parent(path) == SubSeq(path, 1, Len(path) - 1)
path_name(path) == IF path = <<>> THEN <<>> ELSE path[Len(path)]
path_stem(path) ==
    SubSeq(path_name(path), 1, Len(path_name(path)) - Len(suffix(path_name(path))))
\* path.exists(): the output directory (made by download_files) and its
\* parent exist, and so does every file in files.
exists(files, path) ==
    path \in files \/ path = OUTPUT_DIR \/ path = Append(OUTPUT_DIR, <<".", ".">>)

\* The loop of _get_unique_path
RECURSIVE unique_loop(_, _, _)
unique_loop(files, path, counter) ==
    LET next == join_path(parent(path),
                          path_stem(path) \o <<"_">> \o str_int(counter)
                            \o suffix(path_name(path)))
    IN IF exists(files, next) THEN unique_loop(files, path, counter + 1) ELSE next
\* _get_unique_path
_get_unique_path(files, path) ==
    IF ~exists(files, path) THEN path ELSE unique_loop(files, path, 1)

Repeat(c, n) == [k \in 1..n |-> c]

\* The urls tried: a host followed by up to MaxSegs pieces, and urls whose
\* last segment is around and above the length limit, with extensions of
\* several lengths.
MaxSegs == 3
UrlPieces ==
    {<<"a", ".", "p", "d", "f">>, <<".">>, <<"/">>, <<"%", "2", "F">>, <<"%", "5", "C">>, <<"%", "2", "e">>, <<"%", "3", "F">>, <<"?", "q">>, <<"#">>}
LongNames ==
    {Repeat("a", n) \o e :
       n \in {150, KeptStemLen - 1, KeptStemLen, KeptStemLen + 1, MaxNameLen - 4,
              MaxNameLen - 3, MaxNameLen, MaxNameLen + 1, 250},
       e \in {<<>>, <<".">>, <<".", "p", "d", "f">>, <<".", "b", ".", "p", "d", "f">>, <<":", ".", "p", "d", "f">>, <<".">> \o Repeat("b", 9),
              <<".">> \o Repeat("b", 10), <<".">> \o Repeat("b", 60)}}
NameUrls ==
    {<<"h", "t", "t", "p", "s", ":", "/", "/", "x", "/">> \o Concat(ss) : ss \in SeqsUpTo(UrlPieces, MaxSegs)}
    \cup {<<"h", "t", "t", "p", "s", ":", "/", "/", "x", "/">> \o n : n \in LongNames}
\* The files in and next to the output directory before the call.
NameDirs ==
    {{}, {Append(OUTPUT_DIR, <<"a", ".", "p", "d", "f">>), Append(OUTPUT_DIR, <<"a", "_", "1", ".", "p", "d", "f">>), <<<<"d", "o", "w", "n", "l", "o", "a", "d", "s", "_", "1">>>>}}

\* filename = self._extract_filename(url)
ExtractFilename ==
    /\ npc = "start"
    /\ nsan' = Some(raw_filename(nurl))
    /\ nname' = Some(_extract_filename(nurl))
    /\ npc' = "named"
    /\ UNCHANGED <<nurl, nfiles, npath, dvars, svars, mvars, rvars, pvars, hvars, cvars>>

\* local_path = self._get_unique_path(self.output_dir / filename); a path
\* that exists is returned at once, any other is fetched.
GetUniquePath ==
    /\ npc = "named"
    /\ npath' = Some(_get_unique_path(nfiles, join_path(OUTPUT_DIR, nname[1])))
    /\ npc' = IF exists(nfiles, npath'[1]) THEN "done" ELSE "fetching"
    /\ UNCHANGED <<nurl, nfiles, nsan, nname, dvars, svars, mvars, rvars, pvars, hvars,
                   cvars>>

\* The fetch answered 200 with a body that is large enough:
\* local_path.write_bytes(content)
WriteBytes ==
    /\ npc = "fetching"
    /\ nfiles' = nfiles \cup {npath[1]}
    /\ npc' = "done"
    /\ UNCHANGED <<nurl, nsan, nname, npath, dvars, svars, mvars, rvars, pvars, hvars,
                   cvars>>

NameInit ==
    /\ nurl \in NameUrls
    /\ nfiles \in NameDirs
    /\ npc = "start"
    /\ nsan = None
    /\ nname = None
    /\ npath = None
    /\ ParseIdle
    /\ ChunkIdle
    /\ MinerIdle
    /\ ProcessorIdle
    /\ PipelineIdle
    /\ DownloadIdle
    /\ SearchIdle

NameNext == ExtractFilename \/ GetUniquePath \/ WriteBytes

NameSpec == NameInit /\ [][NameNext]_vars

(***************************************************************************)
(* _parse_results: search/duckduckgo.py                                    *)
(*                                                                         *)
(* The body is a str; link_pattern and file_pattern run over it with       *)
(* finditer, both with re.IGNORECASE.                                      *)
(***************************************************************************)
\* t[p:p+len(word)] == word
startswith_at(t, p, word) ==
    /\ p >= 1
    /\ p + Len(word) - 1 <= Len(t)
    /\ \A k \in 1..Len(word) : t[p + k - 1] = word[k]
\* the same under re.IGNORECASE
imatch_at(t, p, word) ==
    /\ p >= 1
    /\ p + Len(word) - 1 <= Len(t)
    /\ \A k \in 1..Len(word) : lower_char(t[p + k - 1]) = lower_char(word[k])
\* t.find(word, p): the first position from p on where word stands, 0 if none
find(t, word, p) ==
    LET hits == {i \in p..Len(t) : startswith_at(t, i, word)}
    IN IF hits = {} THEN 0 ELSE CHOOSE i \in hits : \A i2 \in hits : i <= i2

\* html.unescape for the character references the bodies hold.
Entities ==
    {<<<<"&", "a", "m", "p", ";">>, "&">>, <<<<"&", "l", "t", ";">>, "<">>, <<<<"&", "g", "t", ";">>, ">">>, <<<<"&", "q", "u", "o", "t", ";">>, "\"">>}
RECURSIVE unescape_from(_, _)
unescape_from(t, p) ==
    IF p > Len(t) THEN <<>>
    ELSE LET refs == {e \in Entities : startswith_at(t, p, e[1])}
         IN IF refs = {} THEN <<t[p]>> \o unescape_from(t, p + 1)
            ELSE LET e == CHOOSE e \in refs : TRUE
                 IN <<e[2]>> \o unescape_from(t, p + Len(e[1]))
unescape(t) == unescape_from(t, 1)

\* urlparse(url): scheme, netloc and path; raised when urlsplit raises
\* ValueError for the brackets in the netloc, which it does for every
\* bracket that is not around an IPv6 or IPvFuture address: the bodies hold
\* no such address.
scheme_chars(c) == IsAlnum(c) \/ c \in {"+", "-", "."}
uses_params ==
    {<<>>, <<"f", "t", "p">>, <<"h", "d", "l">>, <<"p", "r", "o", "s", "p", "e", "r", "o">>, <<"h", "t", "t", "p">>, <<"i", "m", "a", "p">>, <<"h", "t", "t", "p", "s">>, <<"s", "h", "t", "t", "p">>, <<"r", "t", "s", "p">>,
     <<"r", "t", "s", "p", "u">>, <<"s", "i", "p">>, <<"s", "i", "p", "s">>, <<"m", "m", "s">>, <<"s", "f", "t", "p">>, <<"t", "e", "l">>}
lstrip_space(t) ==
    LET kept == {i \in 1..Len(t) : t[i] # " "}
    IN IF kept = {} THEN <<>>
       ELSE SubSeq(t, CHOOSE i \in kept : \A i2 \in kept : i <= i2, Len(t))
\* urlsplit: the scheme of url and what follows it
split_scheme(url) ==
    LET i == find(url, <<":">>, 1)
    IN IF /\ i > 1
          /\ IsUpper(url[1]) \/ IsLower(url[1])
          /\ \A k \in 1..(i - 1) : scheme_chars(url[k])
       THEN [scheme |-> lower(SubSeq(url, 1, i - 1)), rest |-> SubSeq(url, i + 1, Len(url))]
       ELSE [scheme |-> <<>>, rest |-> url]
\* urlsplit: the netloc of what follows the scheme, and what follows it
split_netloc(scheme, rest) ==
    LET delim == find_any(rest, {"/", "?", "#"}, 3)
    IN IF startswith_at(rest, 1, <<"/", "/">>)
       THEN [scheme |-> scheme, netloc |-> SubSeq(rest, 3, delim - 1),
             after |-> SubSeq(rest, delim, Len(rest))]
       ELSE [scheme |-> scheme, netloc |-> <<>>, after |-> rest]
\* urlsplit and _splitparams: the path without fragment, query and params
split_path(scheme, whole) ==
    IF scheme \in uses_params
    THEN SubSeq(whole, 1, find_any(whole, {";"}, rfind(whole, "/") + 1) - 1)
    ELSE whole
parse_after(s) ==
    [scheme |-> s.scheme, netloc |-> s.netloc,
     path |-> split_path(s.scheme, SubSeq(s.after, 1, find_any(s.after, {"?", "#"}, 1) - 1)),
     raised |-> Contains(s.netloc, "[") \/ Contains(s.netloc, "]")]
parse_rest(s) == parse_after(split_netloc(s.scheme, s.rest))
urlparse(url) == parse_rest(split_scheme(lstrip_space(url)))

\* x in t, for str
contains_str(t, x) == \E p \in 1..(Len(t) + 1) : startswith_at(t, p, x)

\* _is_valid_file_url without the extension test
valid_parsed_any_ext(domain, parsed, file_type) ==
    /\ ~parsed.raised
    /\ parsed.scheme # <<>>
    /\ parsed.netloc # <<>>
    /\ ~(domain # <<>> /\ ~contains_str(parsed.netloc, domain))
\* _is_valid_file_url from parsed = urlparse(url) on
valid_parsed(domain, parsed, file_type) ==
    /\ ~parsed.raised
    /\ parsed.scheme # <<>>
    /\ parsed.netloc # <<>>
    /\ endswith(lower(parsed.path), <<".">> \o lower(file_type))
    /\ ~(domain # <<>> /\ ~contains_str(parsed.netloc, domain))
\* _is_valid_file_url
_is_valid_file_url(domain, url, file_type) == valid_parsed(domain, urlparse(url), file_type)

\* _extract_uddg_url
uddg_value(url, start) ==
    IF start = 0 THEN None
    ELSE Some(unquote(SubSeq(url, start + 5,
                             find_any(url, {"&"}, start + 5) - 1)))
_extract_uddg_url(url) == uddg_value(url, find(url, <<"u", "d", "d", "g", "=">>, 1))

\* _clean_url
ensure_scheme(url) ==
    IF startswith_at(url, 1, <<"/", "/">>) THEN <<"h", "t", "t", "p", "s", ":">> \o url
    ELSE IF startswith_at(url, 1, <<"h", "t", "t", "p", ":", "/", "/">>) \/ startswith_at(url, 1, <<"h", "t", "t", "p", "s", ":", "/", "/">>)
         THEN url
         ELSE <<>>
_clean_url(url) == ensure_scheme(unquote(unescape(url)))

\* link_pattern.match(t, p): the end of the match and its two groups, None
\* if there is none. Of the places where class="result__a" and href=" can
\* stand inside the tag, the greedy [^>]+ take the last ones.
link_match(t, p) ==
    LET gt == find_any(t, {">"}, p + 2)
        classes == {q \in (p + 3)..(gt - 1) : imatch_at(t, q, <<"c", "l", "a", "s", "s", "=", "\"", "r", "e", "s", "u", "l", "t", "_", "_", "a", "\"">>)}
        quote(r) == find_any(t, {"\""}, r + 6)
        tag_end(r) == find_any(t, {">"}, quote(r) + 1)
        lt(r) == find_any(t, {"<"}, tag_end(r) + 1)
        hrefs == {r \in (p + 3)..(gt - 6) :
                    /\ imatch_at(t, r, <<"h", "r", "e", "f", "=", "\"">>)
                    /\ \E q \in classes : q + 18 <= r
                    /\ quote(r) > r + 6
                    /\ quote(r) <= Len(t)
                    /\ tag_end(r) <= Len(t)
                    /\ imatch_at(t, lt(r), <<"<", "/", "a", ">">>)}
        r == Max(hrefs)
    IN IF ~imatch_at(t, p, <<"<", "a">>) \/ hrefs = {} THEN None
       ELSE Some([end |-> lt(r) + 4,
                  url |-> SubSeq(t, r + 6, quote(r) - 1),
                  title |-> SubSeq(t, tag_end(r) + 1, lt(r) - 1)])

\* file_pattern.match(t, p)
file_match(file_type, t, p) ==
    LET quote == find_any(t, {"\""}, p + 6)
        group == SubSeq(t, p + 6, quote - 1)
    IN IF /\ imatch_at(t, p, <<"h", "r", "e", "f", "=", "\"">>)
          /\ quote <= Len(t)
          /\ \E k \in 1..Len(group) : imatch_at(group, k, <<".">> \o file_type)
       THEN Some([end |-> quote + 1, url |-> group, title |-> <<>>])
       ELSE None

\* The matches of both patterns, by name.
pattern_match(pattern, file_type, t, p) ==
    IF pattern = "link" THEN link_match(t, p) ELSE file_match(file_type, t, p)

\* pattern.finditer(t) from p on
RECURSIVE html_finditer(_, _, _, _)
html_finditer(pattern, file_type, t, p) ==
    LET starts == {i \in p..Len(t) : pattern_match(pattern, file_type, t, i) # None}
    IN IF starts = {} THEN <<>>
       ELSE LET s == CHOOSE i \in starts : \A i2 \in starts : i <= i2
                m == pattern_match(pattern, file_type, t, s)[1]
            IN <<m>> \o html_finditer(pattern, file_type, t, m.end)

SearchResult(url, title) == [url |-> url, title |-> title]

\* results.append(SearchResult(url=url, title=title)) when the url is valid
append_valid(domain, file_type, results, url, title) ==
    IF url # <<>> /\ _is_valid_file_url(domain, url, file_type)
    THEN Append(results, SearchResult(url, title))
    ELSE results
\* The body of the first loop of _parse_results
handle_link(domain, file_type, results, url, title) ==
    IF contains_str(url, <<"u", "d", "d", "g", "=">>)
    THEN append_valid(domain, file_type, results, _extract_uddg_url(url)[1], title)
    ELSE IF _is_valid_file_url(domain, url, file_type)
         THEN Append(results, SearchResult(url, title))
         ELSE results
\* The first loop of _parse_results over the matches of link_pattern
RECURSIVE parse_links(_, _, _, _)
parse_links(domain, file_type, matches, results) ==
    IF matches = <<>> THEN results
    ELSE parse_links(domain, file_type, Tail(matches),
                     handle_link(domain, file_type, results, Head(matches).url,
                                 Some(unescape(strip(Head(matches).title)))))

\* The body of the second loop of _parse_results
handle_href(domain, file_type, results, url) ==
    IF \E k \in 1..Len(results) : results[k].url = url THEN results
    ELSE append_valid(domain, file_type, results, url, None)
\* The second loop of _parse_results over the matches of file_pattern
RECURSIVE parse_hrefs(_, _, _, _)
parse_hrefs(domain, file_type, matches, results) ==
    IF matches = <<>> THEN results
    ELSE parse_hrefs(domain, file_type, Tail(matches),
                     handle_href(domain, file_type, results,
                                 _clean_url(Head(matches).url)))

\* _parse_results
_parse_results(domain, body, file_type) ==
    parse_hrefs(domain, file_type, html_finditer("file", file_type, body, 1),
                parse_links(domain, file_type,
                            html_finditer("link", file_type, body, 1), <<>>))

\* results[:limit], limit >= 0
slice_to(results, limit) == SubSeq(results, 1, Min(limit, Len(results)))

\* The bodies tried: up to MaxAnchors anchors, one after the other.
MaxAnchors == 2
Anchors ==
    {<<"<", "a", " ", "r", "e", "l", "=", "\"", "n", "o", "f", "o", "l", "l", "o", "w", "\"", " ", "c", "l", "a", "s", "s", "=", "\"", "r", "e", "s", "u", "l", "t", "_", "_", "a", "\"", " ", "h", "r", "e", "f", "=", "\"", "/", "/", "d", "u", "c", "k", "d", "u", "c", "k", "g", "o", ".", "c", "o", "m", "/", "l", "/", "?", "u", "d", "d", "g", "=", "h", "t", "t", "p", "s", "%", "3", "A", "%", "2", "F", "%", "2", "F", "x", ".", "i", "o", "%", "2", "F", "a", ".", "p", "d", "f", "&", "a", "m", "p", ";", "r", "u", "t", "=", "1", "\"", ">", "A", " ", "&", "a", "m", "p", ";", " ", "a", "<", "/", "a", ">">>,
     <<"<", "A", " ", "c", "l", "a", "s", "s", "=", "\"", "r", "e", "s", "u", "l", "t", "_", "_", "a", "\"", " ", "i", "d", "=", "\"", "r", "\"", " ", "H", "R", "E", "F", "=", "\"", "h", "t", "t", "p", "s", ":", "/", "/", "x", ".", "i", "o", "/", "a", ".", "p", "d", "f", "\"", ">", " ", "a", " ", "<", "/", "A", ">">>,
     <<"<", "a", " ", "h", "r", "e", "f", "=", "\"", "h", "t", "t", "p", "s", ":", "/", "/", "x", ".", "i", "o", "/", "b", ".", "P", "D", "F", "\"", ">", "b", "<", "/", "a", ">">>,
     <<"<", "a", " ", "c", "l", "a", "s", "s", "=", "\"", "r", "e", "s", "u", "l", "t", "_", "_", "a", "\"", " ", "x", " ", "h", "r", "e", "f", "=", "\"", "f", "t", "p", ":", "/", "/", "x", ".", "i", "o", "/", "c", ".", "p", "d", "f", "\"", ">", "c", "<", "/", "a", ">">>,
     <<"<", "a", " ", "h", "r", "e", "f", "=", "\"", "/", "/", "x", ".", "i", "o", "/", "d", ".", "p", "d", "f", ";", "v", "=", "1", "?", "q", "=", "1", "#", "t", "o", "p", "\"", ">", "d", "<", "/", "a", ">">>,
     <<"<", "a", " ", "c", "l", "a", "s", "s", "=", "\"", "r", "e", "s", "u", "l", "t", "_", "_", "a", "\"", " ", "x", " ", "h", "r", "e", "f", "=", "\"", "/", "e", ".", "p", "d", "f", "\"", ">", "e", "<", "/", "a", ">">>,
     <<"<", "a", " ", "c", "l", "a", "s", "s", "=", "\"", "r", "e", "s", "u", "l", "t", "_", "_", "a", "\"", " ", "x", " ", "h", "r", "e", "f", "=", "\"", "/", "l", "/", "?", "u", "d", "d", "g", "=", "h", "t", "t", "p", "s", "%", "3", "A", "%", "2", "F", "%", "2", "F", "e", "v", "i", "l", ".", "o", "r", "g", "%", "2", "F", "f", ".", "p", "d", "f", "\"", ">", "f", "<", "/", "a", ">">>,
     <<"<", "a", " ", "c", "l", "a", "s", "s", "=", "\"", "r", "e", "s", "u", "l", "t", "_", "_", "a", "\"", " ", "x", " ", "h", "r", "e", "f", "=", "\"", "h", "t", "t", "p", "s", ":", "/", "/", "[", "x", ".", "i", "o", "/", "k", ".", "p", "d", "f", "\"", ">", "k", "<", "/", "a", ">">>,
     <<"<", "a", " ", "h", "r", "e", "f", "=", "\"", "h", "t", "t", "p", "s", ":", "/", "/", "x", ".", "i", "o", "/", "n", "%", "2", "E", "p", "d", "f", "\"", ">", "n", "<", "/", "a", ">">>}
HtmlBodies == {Concat(ss) : ss \in SeqsUpTo(Anchors, MaxAnchors)}
ParseDomains == {<<>>, <<"x", ".", "i", "o">>}
ParseFileTypes == {<<"p", "d", "f">>, <<"P", "D", "F">>}
ParseLimits == {0, 1, 3}

\* What _parse_results found, and results[:limit], which search_files returns
search_result(results, limit) == [parsed |-> results, returned |-> slice_to(results, limit)]

\* search_files from the body of a 200 response on: _parse_results, then
\* results[:limit].
ParseResults ==
    /\ hret = None
    /\ hret' = Some(search_result(_parse_results(hdomain, html, hfile_type), hlimit))
    /\ UNCHANGED <<html, hfile_type, hdomain, hlimit, nvars, cvars, mvars, dvars, svars,
                   rvars, pvars>>

ParseInit ==
    /\ html \in HtmlBodies
    /\ hfile_type \in ParseFileTypes
    /\ hdomain \in ParseDomains
    /\ hlimit \in ParseLimits
    /\ hret = None
    /\ NameIdle
    /\ ChunkIdle
    /\ MinerIdle
    /\ ProcessorIdle
    /\ PipelineIdle
    /\ DownloadIdle
    /\ SearchIdle

ParseNext == ParseResults

ParseSpec == ParseInit /\ [][ParseNext]_vars


(***************************************************************************)
(* Claims about the downloader                                             *)
(***************************************************************************)
NameOf(url) == LET n == extract_filename(url) IN n.stem \o n.suffix
InFlight == {i \in Tasks : dpc[i] \in {"fetching", "reading"}}
WrittenBy(i) == {n \in DOMAIN fs : fs[n] = i}
BodyRead(i) == dresp[i] # None /\ dresp[i][1].kind = "body"

\* C1: when the filename derived from a URL already exists in the output
\* directory at the call, that URL's result has success = true, local_path
\* equal to the existing file, and no fetch was issued for it.
C1_ExistingFileShortCircuits ==
    \A i \in Tasks :
        (dpc[i] = "done" /\ NameOf(dtodo[i]) \in fs0)
            => /\ dret[i][1].success
               /\ dret[i][1].local_path = Some(NameOf(dtodo[i]))
               /\ nfetch[i] = 0

\* C2: at any instant at most max_concurrent tasks are inside the gated
\* section, and the permits left are exactly those not held.
C2_AtMostMaxConcurrentInFlight ==
    /\ Cardinality(InFlight) <= max_concurrent
    /\ sem = max_concurrent - Cardinality(InFlight)

\* C2 witness: the gate is full and a further task is waiting for a permit.
C2_Witness ==
    /\ Cardinality(InFlight) = max_concurrent
    /\ \E i \in Tasks : dpc[i] = "start"

\* C3: every result a task returns carries that task's URL, and the returned
\* list has one result per scheduled URL, the i-th for the i-th URL.
C3_ResultsInInputOrder ==
    /\ \A i \in Tasks : dpc[i] = "done" => dret[i][1].url = dtodo[i]
    /\ dmain = "returned" =>
         /\ Len(dresults) = Len(dtodo)
         /\ \A i \in 1..Len(dtodo) : dresults[i].url = dtodo[i]

\* C3 witness: a batch returned whose tasks completed out of input order.
C3_Witness ==
    /\ dmain = "returned"
    /\ out_of_order
    /\ Len(dresults) >= 2
    /\ dresults[1].url # dresults[2].url

\* C4: for every limit >= 0, download_files returns min(limit, len(urls))
\* results.
C4_LimitBoundsResults ==
    (dmain = "returned" /\ dlimit # None)
        => Len(dresults) = Min(dlimit[1], Len(durls))

\* C5 as stated: a 200 response with a body of at most 100 bytes yields a
\* "too small" failure and writes nothing.
C5_BodyUpTo100Fails ==
    \A i \in Tasks :
        (dpc[i] = "done" /\ BodyRead(i) /\ dresp[i][1].len <= 100)
            => /\ ~dret[i][1].success
               /\ dret[i][1].error = Some("File too small or empty")
               /\ WrittenBy(i) = {}

\* C5 amended: a 200 response with a body of fewer than 100 bytes yields a
\* "too small" failure and writes nothing.
C5_BodyUnder100Fails ==
    \A i \in Tasks :
        (dpc[i] = "done" /\ BodyRead(i) /\ dresp[i][1].len < 100)
            => /\ ~dret[i][1].success
               /\ dret[i][1].local_path = None
               /\ dret[i][1].error = Some("File too small or empty")
               /\ WrittenBy(i) = {}

\* C5 witness: a task has read a 99-byte body of a 200 response and returned.
C5_Witness ==
    \E i \in Tasks : dpc[i] = "done" /\ BodyRead(i) /\ dresp[i][1].len = 99

\* C6: every task that ends has a DownloadResult for its URL; success holds
\* exactly when local_path is set, failure exactly when error is set (and then
\* local_path is absent); a non-200 status is named in the error.
C6_EveryOutcomeIsAResult ==
    \A i \in Tasks :
        /\ dpc[i] = "done" <=> dret[i] # None
        /\ dpc[i] = "done" =>
            LET r == dret[i][1] IN
            /\ r.url = dtodo[i]
            /\ r.success <=> r.local_path # None
            /\ ~r.success <=> r.error # None
            /\ r.error # None => r.local_path = None
            /\ (dresp[i] # None /\ dresp[i][1].kind = "status")
                 => r.error = Some("HTTP " \o ToString(dresp[i][1].status))

\* C6 witness: a returned batch holding a success and a non-200 failure.
C6_Witness ==
    /\ dmain = "returned"
    /\ \E i, j \in 1..Len(dresults) :
         /\ dresults[i].success
         /\ dresults[j].error = Some("HTTP 404")

\* C7: once the batch is started, download_files eventually returns one
\* result per scheduled URL, whatever fails.
C7_BatchCompletes ==
    (dmain = "gather") ~>
        (/\ dmain = "returned"
         /\ Len(dresults) = Len(dtodo)
         /\ \A i \in Tasks : dpc[i] = "done")

\* C7 witness: a batch returned in which the first task failed and a later
\* one, started after it, succeeded.
C7_Witness ==
    /\ dmain = "returned"
    /\ Len(dresults) >= 2
    /\ ~dresults[1].success
    /\ dresults[2].success

(***************************************************************************)
(* Claims about search_files                                               *)
(***************************************************************************)
EventsAt(ev) == {k \in 1..Len(slog) : slog[k].ev = ev}
PostsBefore(k) == {m \in EventsAt("post") : m < k}
RateLimited(e) == e.ev = "resp" /\ e.val \in {202, 429}
SearchOver == spc \in {"returned", "raised"}
\* The answers to the requests, in order.
IsAnswer(e) == e.ev \in {"resp", "client_error", "timeout"}
Answers == SelectSeq(slog, IsAnswer)

C9_SearchErrorExactly ==
    (SearchOver /\ Len(Answers) >= 1) =>
        LET last == Answers[Len(Answers)]
            a == last.ev = "resp" /\ last.val \notin {200, 202, 429}
            b == RateLimited(last) /\ last.attempt = max_retries - 1
            c == last.ev = "client_error" /\ last.attempt = max_retries - 1
            raised == /\ sexc # None
                      /\ sexc[1].type = "SearchError"
                      /\ sexc[1].query = Some(squery)
        IN /\ raised <=> (a \/ b \/ c)
           /\ ~(a \/ b \/ c) => sret # None

\* C10: a backoff sleep of delay*(attempt+1)*jitter comes immediately before
\* every request but the first and nowhere else, so a call that has issued
\* n >= 1 requests has slept n-1 backoffs; answers 429, 429, 200 give a
\* returned list and two backoff sleeps.
C10_BackoffBeforeEveryRetry ==
    /\ \A k \in EventsAt("backoff") :
         /\ slog[k].attempt >= 1
         /\ \E j \in Jitters : slog[k].val = sdelay * (slog[k].attempt + 1) * j
         /\ IF k = Len(slog) THEN spc = "post" /\ attempt = slog[k].attempt
            ELSE slog[k + 1] = Event("post", slog[k].attempt, 0)
    /\ \A k \in EventsAt("post") :
         IF slog[k].attempt = 0 THEN k = 1
         ELSE k > 1 /\ slog[k - 1].ev = "backoff" /\ slog[k - 1].attempt = slog[k].attempt
    /\ (spc # "post" /\ EventsAt("post") # {}) =>
         Cardinality(EventsAt("backoff")) = Cardinality(EventsAt("post")) - 1
    /\ (SearchOver /\ Len(Answers) = 3 /\ Answers[1].val = 429 /\ Answers[2].val = 429
          /\ Answers[3].ev = "resp" /\ Answers[3].val = 200) =>
         /\ sret # None
         /\ Cardinality(EventsAt("backoff")) = 2

\* C10 witness: a call answered 429, 429, 200 has returned.
C10_Witness ==
    /\ spc = "returned"
    /\ Len(Answers) = 3
    /\ Answers[1].val = 429 /\ Answers[2].val = 429
    /\ Answers[3].ev = "resp" /\ Answers[3].val = 200
    /\ Cardinality(EventsAt("backoff")) = 2

\* C11: every finished search_files call, whether it returned a list or
\* raised, has the courtesy sleep of delay + jitter as its last step: the
\* sleep comes after the last answer and nothing follows it.
C11_CourtesySleepOnEveryExit ==
    SearchOver =>
        /\ Len(slog) >= 1
        /\ slog[Len(slog)].ev = "courtesy"
        /\ \E j \in Jitters : slog[Len(slog)].val = courtesy_time(sdelay, j)
        /\ Cardinality(EventsAt("courtesy")) = 1

\* The email shape: a local part of [A-Za-z0-9._%+-], one @, domain labels of
\* [A-Za-z0-9-] separated by dots, and a final label of two or more letters.
EmailShape(e) ==
    \E at \in 2..Len(e), dot \in 3..Len(e) :
        /\ e[at] = "@"
        /\ \A m \in 1..(at - 1) : LocalChar(e[m])
        /\ dot >= at + 2
        /\ e[dot] = "."
        /\ \A m \in (at + 1)..(dot - 1) : DomainChar(e[m])
        /\ Len(e) >= dot + 2
        /\ \A m \in (dot + 1)..Len(e) : IsUpper(e[m]) \/ IsLower(e[m])

\* C20: for every text, extract_emails returns a strictly ascending (sorted,
\* duplicate-free) list of lower-cased values, each of the email shape, none
\* with a blacklisted placeholder domain and none ending in a listed file
\* extension; the empty text gives the empty list.
C20_ExtractEmailsOutput ==
    mret # None =>
        LET out == mret[1]
        IN /\ \A k \in 1..(Len(out) - 1) : LexLess(out[k], out[k + 1])
           /\ \A k \in 1..Len(out) :
                /\ lower(out[k]) = out[k]
                /\ EmailShape(out[k])
                /\ email_domain(out[k]) \notin EMAIL_BLACKLIST
                /\ \A ext \in FALSE_TLDS : ~endswith(out[k], ext)
           /\ mtext = <<>> => out = <<>>

(***************************************************************************)
(* Claims about the ResultProcessor and the extractors                     *)
(***************************************************************************)
IsPrefix(s, t) == Len(s) <= Len(t) /\ SubSeq(t, 1, Len(s)) = s
NoDuplicates(list) == \A i, j \in 1..Len(list) : list[i] = list[j] => i = j
Ascending(list) == \A k \in 1..(Len(list) - 1) : LexLess(list[k], list[k + 1])
Results == ScanResults(documents, failed)
\* A regular file whose name ends, in any case, in a dot and a known type.
Recognized(entry) ==
    /\ entry.is_file
    /\ \E ft \in FileTypeValues :
         /\ Len(entry.name) > Len(ft) + 1
         /\ endswith(lower(entry.name), <<".">> \o ft)

\* C13: every process_file call appends exactly one entry to exactly one of
\* documents and failed: for an unsupported type or a failed extract() the
\* documents are unchanged and one (path, message) pair is appended to
\* failed; on success failed is unchanged and one metadata is appended to
\* documents. No step removes or reorders an existing entry of either list.
C13_OneEntryPerProcessFile ==
    [][/\ IsPrefix(documents, documents')
       /\ IsPrefix(failed, failed')
       /\ (Len(documents') + Len(failed')) - (Len(documents) + Len(failed))
            = Len(pcalls') - Len(pcalls)
       /\ (pop' # pop /\ pop'.op = "process_file") =>
            LET file == pop'.arg
            IN /\ pcalls' = Append(pcalls, file)
               /\ IF ~Recognized(file) \/ file.doc.error # None
                  THEN /\ documents' = documents
                       /\ Len(failed') = Len(failed) + 1
                       /\ failed'[Len(failed')][1] = file.name
                       /\ failed'[Len(failed')][2] # ""
                  ELSE /\ failed' = failed
                       /\ Len(documents') = Len(documents) + 1
                       /\ documents'[Len(documents')].filename = file.name]_vars

\* C13 witness: a failing extraction was recorded after a document.
C13_Witness ==
    /\ pop.op = "process_file"
    /\ pop.arg = d_pdf
    /\ Len(documents) = 1
    /\ failed = <<<<d_pdf.name, "Unknown error">>>>

\* C17: no document's users, software, paths or emails list holds a value
\* twice, for every extractor variant and every combination of properties
\* and mined text.
C17_NoDuplicateIndicators ==
    \A k \in 1..Len(documents) :
        /\ NoDuplicates(documents[k].users)
        /\ NoDuplicates(documents[k].software)
        /\ NoDuplicates(documents[k].paths)
        /\ NoDuplicates(documents[k].emails)

\* C17 witness: a PDF whose Title path and Subject email also occur in its
\* text is stored with each of them once, next to an email found in the
\* text only.
C17_Witness ==
    /\ Len(documents) = 1
    /\ pop.arg.doc.title = Some(<<"/", "s", "r", "v", "/", "t", ".", "d", "o", "t">>)
    /\ pop.arg.doc.subject = Some(<<"a", "@", "x", ".", "c", "o", "m">>)
    /\ pop.arg.doc.text = Some(<<"b", "@", "y", ".", "c", "o", "m", " ", "a", "@", "x", ".", "c", "o", "m", " ", "i", "n", " ", "/", "s", "r", "v", "/", "t", ".", "d", "o", "t", ".">>)
    /\ documents[1].paths = <<<<"/", "s", "r", "v", "/", "t", ".", "d", "o", "t">>>>
    /\ documents[1].emails = <<<<"a", "@", "x", ".", "c", "o", "m">>, <<"b", "@", "y", ".", "c", "o", "m">>>>

\* C18: each of unique_users, unique_software, unique_emails, unique_paths
\* is strictly ascending in code-point order and holds exactly the values of
\* that list over all documents; stats holds the lengths of documents,
\* failed and the four sequences; documents with emails [a@x.com] and
\* [a@x.com, b@y.com] give unique_emails [a@x.com, b@y.com].
C18_UniqueIndicatorsSorted ==
    LET docs == {documents[k] : k \in 1..Len(documents)}
    IN /\ Ascending(unique_users(Results))
       /\ Ascending(unique_software(Results))
       /\ Ascending(unique_emails(Results))
       /\ Ascending(unique_paths(Results))
       /\ Range(unique_users(Results)) = UNION {Range(d.users) : d \in docs}
       /\ Range(unique_software(Results)) = UNION {Range(d.software) : d \in docs}
       /\ Range(unique_emails(Results)) = UNION {Range(d.emails) : d \in docs}
       /\ Range(unique_paths(Results)) = UNION {Range(d.paths) : d \in docs}
       /\ stats(Results).total_documents = Len(documents)
       /\ stats(Results).failed_extractions = Len(failed)
       /\ stats(Results).unique_users = Cardinality(UNION {Range(d.users) : d \in docs})
       /\ stats(Results).unique_software
            = Cardinality(UNION {Range(d.software) : d \in docs})
       /\ stats(Results).unique_emails = Cardinality(UNION {Range(d.emails) : d \in docs})
       /\ stats(Results).unique_paths = Cardinality(UNION {Range(d.paths) : d \in docs})
       /\ (/\ Len(documents) = 2
           /\ documents[1].emails = <<<<"a", "@", "x", ".", "c", "o", "m">>>>
           /\ documents[2].emails = <<<<"a", "@", "x", ".", "c", "o", "m">>, <<"b", "@", "y", ".", "c", "o", "m">>>>)
            => unique_emails(Results) = <<<<"a", "@", "x", ".", "c", "o", "m">>, <<"b", "@", "y", ".", "c", "o", "m">>>>

\* C18 witness: two documents with emails [a@x.com] and [a@x.com, b@y.com],
\* whose software comes out sorted, not in the order it was first seen in.
C18_Witness ==
    /\ Len(documents) = 2
    /\ documents[1].emails = <<<<"a", "@", "x", ".", "c", "o", "m">>>>
    /\ documents[2].emails = <<<<"a", "@", "x", ".", "c", "o", "m">>, <<"b", "@", "y", ".", "c", "o", "m">>>>
    /\ documents[1].software = <<<<"W", "o", "r", "d">>>>
    /\ documents[2].software = <<<<"W", "o", "r", "d">>, <<"A", "c", "r", "o", "b", "a", "t">>>>
    /\ unique_software(Results) = <<<<"A", "c", "r", "o", "b", "a", "t">>, <<"W", "o", "r", "d">>>>

\* C19: process_directory calls process_file once for each regular file
\* whose lower-cased extension is a known type, in the order of the listing,
\* and for no other entry; the entries it skips add nothing to documents and
\* nothing to failed.
C19_DirectoryProcessesRecognizedOnly ==
    [][(pop' # pop /\ pop'.op = "process_directory") =>
         LET recognized == SelectSeq(pop'.arg, Recognized)
             names == {recognized[k].name : k \in 1..Len(recognized)}
         IN /\ pcalls' = pcalls \o recognized
            /\ (Len(documents') + Len(failed')) - (Len(documents) + Len(failed))
                 = Len(recognized)
            /\ \A k \in (Len(documents) + 1)..Len(documents') :
                 documents'[k].filename \in names
            /\ \A k \in (Len(failed) + 1)..Len(failed') :
                 failed'[k][1] \in names]_vars

\* C19 witness: a directory with one recognized and one unrecognized entry
\* was processed: one document, no failure.
C19_Witness ==
    /\ pop.op = "process_directory"
    /\ pop.n = 1
    /\ Range(pop.arg) = {a_pdf, e_txt}
    /\ Len(documents) = 1
    /\ failed = <<>>

(***************************************************************************)
(* Claims about search_and_extract                                         *)
(***************************************************************************)
Exited == rpc \in {"returned", "raised"}
Handled == {"extracted", "extract_failed", "not_downloaded"}
IsExtracted(e) == e.ev = "extracted"
IsHandled(e) == e.ev \in Handled

\* C12: close() raises nothing and leaves no open session, and a second
\* close() changes nothing, whether the session is open, closed or was never
\* created; search_and_extract has called close() exactly once when it has
\* returned or raised, whichever step raised, and never before; after it a
\* session that was created is closed.
C12_CloseOnEveryExit ==
    /\ \A s \in Sessions :
         /\ close(s).raised = None
         /\ close(s).session # "open"
         /\ close(close(s).session) = close(s)
    /\ closes = IF Exited THEN 1 ELSE 0
    /\ Exited => session = (IF rlog = <<>> THEN "none" ELSE "closed")
    /\ rpc = "raised" => rexc \in {Some("OSError"), Some("CancelledError")}
    /\ rpc = "returned" => rexc = None

\* C12 witness: download_files raised while the session was open; the run
\* ended with the exception, after one close().
C12_Witness ==
    /\ rpc = "raised"
    /\ rexc = Some("OSError")
    /\ closes = 1
    /\ session = "closed"
    /\ batch # <<>>

\* C14: when the run has returned, documents and failed together have as
\* many entries as DownloadResults were produced; a failed download has
\* exactly one entry of failed under its url, with its error or "Download
\* failed", and no document; a successful download has exactly one entry,
\* either a document whose source_url is its url or an entry of failed under
\* its local path.
C14_EveryDownloadResultAccounted ==
    rpc = "returned" =>
      /\ Len(documents) + Len(failed) = Len(produced)
      /\ \A i \in 1..Len(produced) :
           LET r == produced[i]
               docs == {k \in 1..Len(documents) : documents[k].source_url = Some(r.url)}
               by_url == {k \in 1..Len(failed) : failed[k][1] = r.url}
               by_path == {k \in 1..Len(failed) :
                             r.local_path # None /\ failed[k][1] = r.local_path[1]}
           IN IF r.success
              THEN Cardinality(docs) + Cardinality(by_path) = 1 /\ by_url = {}
              ELSE /\ Cardinality(by_url) = 1
                   /\ \A k \in by_url :
                        failed[k][2] = (IF r.error # None /\ r.error[1] # ""
                                        THEN r.error[1] ELSE "Download failed")
                   /\ docs = {}
                   /\ by_path = {}

\* C14 witness: a run over pdf and docx returned with one document, one
\* failed extraction and one failed download.
C14_Witness ==
    /\ rpc = "returned"
    /\ Len(produced) = 3
    /\ Len(documents) = 1
    /\ documents[1].source_url = Some(u_a)
    /\ failed = <<<<d_pdf.name, "Unknown error">>, <<u_b, "HTTP 404">>>>

\* C15: the events of the run are in the order of file_types, each type
\* starting with its search; a type's downloads have all finished before the
\* first of its results is handled, and the results are handled in the order
\* download_files returned them; the documents are, in order, the results
\* whose extraction succeeded.
C15_PipelineOrder ==
    LET handled == SelectSeq(rlog, IsHandled)
        extracted == SelectSeq(rlog, IsExtracted)
    IN /\ \A i, j \in 1..Len(rlog) : i < j =>
            /\ rlog[i].type <= rlog[j].type
            /\ rlog[j].ev \in {"searched", "search_failed"} => rlog[i].type < rlog[j].type
            /\ (rlog[i].type = rlog[j].type /\ rlog[i].ev \in Handled) =>
                 rlog[j].ev \in Handled
       /\ \A j \in 1..Len(rlog) : rlog[j].type \in 1..Len(file_types)
       /\ rpc = "extract" =>
            /\ Len(download_results) = Len(batch)
            /\ \A k \in 1..Len(batch) :
                 /\ batch[k].result = Some(download_results[k])
                 /\ \E i \in 1..Len(rlog) :
                      rlog[i] = RunEvent("downloaded", batch[k].url)
       /\ Len(handled) <= Len(produced)
       /\ \A k \in 1..Len(handled) : handled[k].url = produced[k].url
       /\ Len(documents) = Len(extracted)
       /\ \A k \in 1..Len(documents) : documents[k].source_url = Some(extracted[k].url)

\* C15 witness: docx then pdf; the pdf downloads finished in the other order
\* than they were listed, and the documents are in the listed order.
C15_Witness ==
    /\ rpc = "returned"
    /\ file_types = <<<<"d", "o", "c", "x">>, <<"p", "d", "f">>>>
    /\ [k \in 1..Len(produced) |-> produced[k].url] = <<u_b, u_d, u_a>>
    /\ \E i, j \in 1..Len(rlog) :
         /\ i < j
         /\ rlog[i].ev = "downloaded" /\ rlog[i].url = u_a
         /\ rlog[j].ev = "downloaded" /\ rlog[j].url = u_d
    /\ [k \in 1..Len(documents) |-> documents[k].source_url] = <<Some(u_b), Some(u_a)>>

\* C16: a search that raised leaves documents, failed and the downloads
\* produced so far as they were and the run goes on with the next file
\* type; nothing is downloaded or handled for that type; a run that returned
\* has searched every file type, and a run that raised did not raise a
\* search error.
C16_SearchFailureSkipsType ==
    [][/\ (rlog' # rlog /\ rlog'[Len(rlog')].ev = "search_failed") =>
            /\ documents' = documents
            /\ failed' = failed
            /\ produced' = produced
            /\ pcalls' = pcalls
            /\ rexc' = None
            /\ rpc' = "search"
            /\ ft_idx' = ft_idx + 1
       /\ \A i, j \in 1..Len(rlog') :
            (rlog'[i].ev = "search_failed" /\ rlog'[i].type = rlog'[j].type) => i = j
       /\ rpc' = "returned" =>
            \A t \in 1..Len(file_types) :
              \E i \in 1..Len(rlog') :
                rlog'[i].type = t /\ rlog'[i].ev \in {"searched", "search_failed"}
       /\ rpc' = "raised" => rexc' \notin {Some(e) : e \in SearchErrors}]_vars

\* C16 witness: the search of the first type raised, the second type gave a
\* document, and the run returned.
C16_Witness ==
    /\ rpc = "returned"
    /\ Len(rlog) > 1
    /\ rlog[1].ev = "search_failed"
    /\ Len(documents) = 1

(***************************************************************************)
(* Claims about the extractors' template paths and the text enrichment     *)
(***************************************************************************)
\* The property an extractor class reads as template (the Title for a PDF);
\* the XLSX extractor reads none.
path_property(class, file) ==
    CASE class = "PDFExtractor" -> file.doc.title
      [] class = "XLSXExtractor" -> None
      [] OTHER -> file.doc.template

\* C26: for every file whose extractor reads a template (or PDF Title)
\* property, when extract() succeeds and the value of the property holds
\* "/" or "\", the value is in the paths of the metadata extract() made.
C26_TemplatePathInPaths ==
    pop.op = "process_file" =>
      LET file == pop.arg
          class == get_extractor(file)
      IN class # None =>
           LET result == extract(class[1], file)
               value == path_property(class[1], file)
           IN (result.success /\ result.metadata # None /\ value # None
                 /\ has_separator(value[1]))
                => value[1] \in Range(result.metadata[1].paths)

\* C27: when extract() succeeds, process_file appends the document and
\* nothing to failed, whatever extract_text() gives; when the text is absent
\* or its extraction failed (always so for the legacy doc/xls/ppt
\* extractor) the emails and paths of the document are those extract() made.
C27_TextIsBestEffort ==
    (pop.op = "process_file" /\ pop.n = 1) =>
      LET file == pop.arg
          result == extract_metadata(file)
      IN (result.success /\ result.metadata # None) =>
           /\ Len(documents) = 1
           /\ failed = <<>>
           /\ documents[1].filename = file.name
           /\ (file.doc.text = None \/ get_extractor(file) = Some("LegacyOfficeExtractor")) =>
                /\ documents[1].emails = result.metadata[1].emails
                /\ documents[1].paths = result.metadata[1].paths

\* C27 witness: a legacy .doc with a template path became a document whose
\* only path is the template.
C27_Witness ==
    /\ pop.op = "process_file"
    /\ pop.arg.name = <<"r", ".", "d", "o", "c">>
    /\ pop.arg.doc.template = Some(<<"C", ":", "\\", "t", ".", "d", "o", "t">>)
    /\ Len(documents) = 1
    /\ failed = <<>>
    /\ documents[1].paths = <<<<"C", ":", "\\", "t", ".", "d", "o", "t">>>>
    /\ documents[1].emails = <<>>

(***************************************************************************)
(* Claims about the paths the downloader writes to                         *)
(***************************************************************************)
\* stem_k+suffix for the smallest k >= 1 that is not among files.
Numbered(stem, ext, k) == stem \o "_" \o ToString(k) \o ext
FirstFree(files, stem, ext) ==
    LET k == CHOOSE k \in 1..(Cardinality(files) + 1) :
                 /\ Numbered(stem, ext, k) \notin files
                 /\ \A j \in 1..(k - 1) : Numbered(stem, ext, j) \in files
    IN Numbered(stem, ext, k)

\* C24: a task that passes the path check goes on to fetch with the target
\* name when that does not exist, and otherwise with stem_k+suffix for the
\* smallest k >= 1 that does not exist at the check; a write creates or
\* changes that one file only; every file that was in the output directory
\* before the call stays as it was.
C24_UniquePathKeepsOldFiles ==
    [][/\ \A n \in fs0 : n \in DOMAIN fs' /\ fs'[n] = 0
       /\ \A i \in (DOMAIN dpc) \cap (DOMAIN dpc') :
            (dpc[i] = "start" /\ dpc'[i] # "start") =>
              LET name == extract_filename(dtodo[i])
                  target == name.stem \o name.suffix
              IN dpath'[i] = Some(IF target \notin DOMAIN fs THEN target
                                  ELSE FirstFree(DOMAIN fs, name.stem, name.suffix))
       /\ fs' # fs =>
            \E i \in Tasks :
              /\ dpath[i] # None
              /\ DOMAIN fs' = DOMAIN fs \cup {dpath[i][1]}
              /\ fs'[dpath[i][1]] = i
              /\ \A n \in DOMAIN fs : n # dpath[i][1] => fs'[n] = fs[n]]_vars

\* C24 witness: report.pdf and report_1.pdf were there before the call, and
\* a task wrote report_2.pdf.
C24_Witness ==
    /\ fs0 = {"report.pdf", "report_1.pdf"}
    /\ "report_2.pdf" \in DOMAIN fs
    /\ fs["report_2.pdf"] = 1
    /\ dret[1] # None
    /\ dret[1][1].local_path = Some("report_2.pdf")
    /\ fs["report.pdf"] = 0
    /\ fs["report_1.pdf"] = 0

\* C29: in one batch, two tasks for different urls that derive the same
\* file name and both return a success never return the same local_path,
\* and no step changes a file that a task of the batch wrote.
C29_NoSharedPathInBatch ==
    [][/\ \A i, j \in DOMAIN dret' :
            (/\ i # j
             /\ dtodo'[i] # dtodo'[j]
             /\ extract_filename(dtodo'[i]) = extract_filename(dtodo'[j])
             /\ dret'[i] # None /\ dret'[i][1].success
             /\ dret'[j] # None /\ dret'[j][1].success)
              => dret'[i][1].local_path # dret'[j][1].local_path
       /\ \A n \in DOMAIN fs : fs[n] # 0 => fs'[n] = fs[n]]_vars

(***************************************************************************)
(* Claims about the file name a url gives                                  *)
(***************************************************************************)
Sanitized(t) == [k \in 1..Len(t) |-> IF Contains(unsafe_chars, t[k]) THEN "_" ELSE t[k]]
IsDirectChild(path) ==
    /\ Len(path) = Len(OUTPUT_DIR) + 1
    /\ parent(path) = OUTPUT_DIR
    /\ path_name(path) \notin {<<>>, <<".">>, <<".", ".">>}
    /\ ~Contains(path_name(path), "/")

\* C25: the sanitized file name holds none of < > : " / \ | ? *, is at most
\* 200 characters long, and, when the name given was longer than 200, is
\* the first 190 characters of its stem followed by its extension with the
\* dot.
C25_SanitizedNameBounded ==
    nname # None =>
      LET given == nsan[1]
          dot == rfind(given, ".")
          stem == IF dot > 0 THEN SubSeq(given, 1, dot - 1) ELSE given
          ext == IF dot > 0 THEN SubSeq(given, dot, Len(given)) ELSE <<>>
      IN /\ \A k \in 1..Len(nname[1]) : ~Contains(unsafe_chars, nname[1][k])
         /\ Len(nname[1]) <= MaxNameLen
         /\ Len(given) > MaxNameLen =>
              nname[1] = Sanitized(SubSeq(stem, 1, Min(KeptStemLen, Len(stem)))) \o Sanitized(ext)

\* C30: the file name derived from a url is not empty and holds no path
\* separator, and the local path chosen for it, which is the path written
\* to and reported, is a direct child of the output directory.
C30_WritesInsideOutputDir ==
    /\ nname # None =>
         /\ nname[1] # <<>>
         /\ ~Contains(nname[1], "/")
         /\ ~Contains(nname[1], "\\")
    /\ npath # None => IsDirectChild(npath[1])

(***************************************************************************)
(* Claims about the Text Miner on concatenated chunks                      *)
(***************************************************************************)
\* C28: for each of extract_emails, extract_urls, extract_hostnames and
\* extract_paths and all chunks s and t, what the function finds in s+t
\* includes everything it finds in s and everything it finds in t.
C28_ConcatenationIsSuperset ==
    cfound # None =>
      \A f \in {"emails", "urls", "hostnames", "paths"} :
        (Range(cfound[1].s[f]) \cup Range(cfound[1].t[f])) \subseteq Range(cfound[1].st[f])

(***************************************************************************)
(* Claims about the results parsed from a body                             *)
(***************************************************************************)
\* C21: no two SearchResults of the list that _parse_results returns, and so
\* of the list that search_files returns, have the same url, whatever the
\* body, also when one target stands in several result-link anchors or in
\* an anchor of each pass.
C21_NoDuplicateUrls ==
    hret # None =>
      \A i, j \in 1..Len(hret[1].parsed) :
        i # j => hret[1].parsed[i].url # hret[1].parsed[j].url

\* C22: the url of every SearchResult returned has the scheme http or https;
\* a candidate with another scheme, such as ftp, is dropped in both passes.
C22_HttpSchemesOnly ==
    hret # None =>
      \A k \in 1..Len(hret[1].returned) :
        urlparse(hret[1].returned[k].url).scheme \in {<<"h", "t", "t", "p">>, <<"h", "t", "t", "p", "s">>}

\* The url has a scheme and a netloc, a path that ends in "." + file_type
\* without regard to case, and a netloc that holds the domain if one is set.
Validated(domain, file_type, url) ==
    LET parts == urlparse(url)
    IN /\ ~parts.raised
       /\ parts.scheme # <<>>
       /\ parts.netloc # <<>>
       /\ Len(parts.path) > Len(file_type)
       /\ \A k \in 1..Len(file_type) :
            lower_char(parts.path[Len(parts.path) - Len(file_type) + k])
              = lower_char(file_type[k])
       /\ parts.path[Len(parts.path) - Len(file_type)] = "."
       /\ domain # <<>> => \E p \in 1..Len(parts.netloc) : startswith_at(parts.netloc, p, domain)

====
